---- MODULE Spec2Model ----
(***************************************************************************)
(* Order business-rule engine of purchase-order-dns: the role/ownership    *)
(* permission evaluator, the order status machine and the zod request      *)
(* schemas of src/src/lib/auth/permissions.ts.                             *)
(*                                                                         *)
(* The specifications share the variables:                                 *)
(*   SpecPermissions   calls of hasPermission on enumerated arguments      *)
(*   Spec              one order and the status-change requests of clients *)
(*   SpecValidator     CreateOrderSchema / UpdateOrderSchema on requests   *)
(*   SpecHelpers       calls of the helper functions on enumerated         *)
(*                     arguments                                           *)
(*   SpecOrderNumbers  clients creating orders: numbering and insert       *)
(*   SpecEditing       Update requests for one order                       *)
(*   SpecCreation      Create requests                                     *)
(*   SpecRequests      status changes, Updates and Creates on one order    *)
(*   SpecProducts      the product schemas on product requests             *)
(*   SpecAmounts       OrderItemSchema / OrderSchema on amounts at their   *)
(*                     digit ceilings                                      *)
(*   SpecUsers         the schemas of a user update on update requests     *)
(***************************************************************************)
EXTENDS Integers, Sequences, FiniteSets, TLC

VARIABLES
    authz,          \* the last permission check: its arguments and outcome
    status,         \* Order.status as stored
    statusHistory,  \* Order.statusHistory as stored
    believed,       \* per client: the status it last read, or NoRead
    readAt,         \* per client: Len(statusHistory) when it read
    basedOn,        \* per history entry: the readAt of the request that made it
    last,           \* the last status-change request processed, with its verdict
    validation,     \* the last Create/Update request validated, with its verdict
    call,           \* the last call of a helper: its arguments and its result
    today,          \* the date new Date() gives
    orders,         \* the rows of table orders
    creating,       \* per client: how far its creation of an order has come
    content         \* the items and the order discount of the order as stored

vars == <<authz, status, statusHistory, believed, readAt, basedOn, last, validation,
          call, today, orders, creating, content>>

\* The variables of the helper calls, of the order table and of the order's content
tableVars == <<call, today, orders, creating, content>>

\* JavaScript's undefined and null, as request values
Undefined == "<undefined>"
Null == "<null>"

(***************************************************************************)
(* Permission evaluator                                                    *)
(***************************************************************************)

Permission ==
    { "store:create", "store:read", "store:read-all", "store:update", "store:delete",
      "product:create", "product:read", "product:update", "product:delete",
      "product:manage-prices",
      "order:create", "order:read", "order:read-own", "order:read-all", "order:update",
      "order:delete", "order:approve", "order:reject", "order:generate-po",
      "visit:create", "visit:read", "visit:read-own", "visit:read-all", "visit:update",
      "visit:delete", "visit:delete-all",
      "user:read", "user:update", "user:manage-roles", "user:delete",
      "report:view",
      "basic" }

UserRole == {"ADMIN", "MANAGER", "SALES", "BASIC"}

ROLE_PERMISSIONS ==
    [ ADMIN |->
        { "store:create", "store:read", "store:read-all", "store:update", "store:delete",
          "product:create", "product:read", "product:update", "product:delete",
          "product:manage-prices",
          "order:create", "order:read", "order:read-all", "order:update", "order:delete",
          "order:approve", "order:reject", "order:generate-po",
          "visit:create", "visit:read", "visit:read-all", "visit:update", "visit:delete",
          "visit:delete-all",
          "user:read", "user:update", "user:manage-roles", "user:delete",
          "report:view",
          "basic" },
      SALES |->
        { "store:read", "store:create",
          "product:read",
          "order:create", "order:read", "order:read-own", "order:update",
          "visit:create", "visit:read", "visit:read-own", "visit:update",
          "basic" },
      MANAGER |->
        { "store:read", "store:read-all",
          "product:read",
          "order:read", "order:read-all",
          "visit:read", "visit:read-all",
          "user:read",
          "report:view",
          "basic" },
      BASIC |-> { "basic" } ]

\* Property names every object literal inherits from Object.prototype: looking
\* one up on ROLE_PERMISSIONS yields a value that is not an array.
ObjectPrototypeKeys == {"constructor", "toString", "valueOf", "hasOwnProperty"}

\* ROLE_PERMISSIONS[userRole], a property access on an object literal
RolePermissionsLookup(userRole) ==
    IF userRole \in UserRole
    THEN [kind |-> "array", items |-> ROLE_PERMISSIONS[userRole]]
    ELSE IF userRole \in ObjectPrototypeKeys
    THEN [kind |-> "object", items |-> {}]
    ELSE [kind |-> "undefined", items |-> {}]

\* The outcome of a call: a returned boolean, or a thrown TypeError
Return(b) == [throws |-> FALSE, value |-> b]
Throw == [throws |-> TRUE, value |-> FALSE]

OwnershipScoped == {"order:read-own", "visit:read-own"}

\* Faulty variant: an inactive user is denied everything, the baseline permission too.
hasPermission_NoBaseline(userRole, permission, isUserActive, userId, resourceOwnerId) ==
    IF ~isUserActive
    THEN Return(FALSE)
    ELSE LET rolePermissions == RolePermissionsLookup(userRole) IN
         IF rolePermissions.kind = "object"
         THEN Throw
         ELSE IF permission \notin rolePermissions.items
         THEN Return(FALSE)
         ELSE IF permission \in OwnershipScoped
         THEN Return(userId = resourceOwnerId)
         ELSE Return(TRUE)

\* Faulty variant: MANAGER is looked up as ADMIN.
hasPermission_ManagerAsAdmin(userRole, permission, isUserActive, userId, resourceOwnerId) ==
    IF ~isUserActive /\ permission # "basic"
    THEN Return(FALSE)
    ELSE LET rolePermissions ==
                 RolePermissionsLookup(IF userRole = "MANAGER" THEN "ADMIN" ELSE userRole)
         IN IF rolePermissions.kind = "object"
            THEN Throw
            ELSE IF permission \notin rolePermissions.items
            THEN Return(FALSE)
            ELSE IF permission \in OwnershipScoped
            THEN Return(userId = resourceOwnerId)
            ELSE Return(TRUE)

hasPermission(userRole, permission, isUserActive, userId, resourceOwnerId) ==
    IF ~isUserActive /\ permission # "basic"
    THEN Return(FALSE)
    ELSE LET rolePermissions == RolePermissionsLookup(userRole) IN
         \* rolePermissions?.includes(permission): undefined short-circuits to
         \* undefined (denied); a non-array object has no includes to call
         IF rolePermissions.kind = "object"
         THEN Throw
         ELSE IF permission \notin rolePermissions.items
         THEN Return(FALSE)
         ELSE IF permission \in OwnershipScoped
         THEN Return(userId = resourceOwnerId)
         ELSE Return(TRUE)

\* Argument pools of the permission checks
RoleInputs == UserRole \cup {"GUEST", "constructor"}
UserIds == {"u1", "u2"}
IdInputs == UserIds \cup {Undefined}

NoCheck == [op |-> "none"]

\* The calls of the model: every combination of the argument pools
PermissionCalls ==
    { [ op |-> "call",
        userRole |-> userRole,
        permission |-> permission,
        isUserActive |-> isUserActive,
        userId |-> userId,
        resourceOwnerId |-> resourceOwnerId ] :
      userRole \in RoleInputs, permission \in Permission, isUserActive \in BOOLEAN,
      userId \in IdInputs, resourceOwnerId \in IdInputs }

\* The pending call is evaluated
CheckPermission ==
    /\ authz.op = "call"
    /\ authz' = [ op |-> "hasPermission",
                  userRole |-> authz.userRole,
                  permission |-> authz.permission,
                  isUserActive |-> authz.isUserActive,
                  userId |-> authz.userId,
                  resourceOwnerId |-> authz.resourceOwnerId,
                  result |-> hasPermission(authz.userRole, authz.permission,
                                           authz.isUserActive, authz.userId,
                                           authz.resourceOwnerId) ]
    /\ UNCHANGED <<status, statusHistory, believed, readAt, basedOn, last, validation>>
    /\ UNCHANGED tableVars

(***************************************************************************)
(* Order status machine                                                    *)
(***************************************************************************)

OrderStatus == {"DRAFT", "DISETUJUI", "TERKIRIM", "TIDAK_TERKIRIM"}

\* Faulty variant: an order that was not delivered may be reopened as a draft.
statusTransitionMap_Reopens ==
    [ DRAFT |-> {"DISETUJUI", "TIDAK_TERKIRIM"},
      DISETUJUI |-> {"TERKIRIM", "TIDAK_TERKIRIM"},
      TERKIRIM |-> {},
      TIDAK_TERKIRIM |-> {"DISETUJUI", "DRAFT"} ]

\* Faulty variant: a draft may be delivered without approval.
statusTransitionMap_DraftDelivers ==
    [ DRAFT |-> {"DISETUJUI", "TIDAK_TERKIRIM", "TERKIRIM"},
      DISETUJUI |-> {"TERKIRIM", "TIDAK_TERKIRIM"},
      TERKIRIM |-> {},
      TIDAK_TERKIRIM |-> {"DISETUJUI"} ]

statusTransitionMap ==
    [ DRAFT |-> {"DISETUJUI", "TIDAK_TERKIRIM"},
      DISETUJUI |-> {"TERKIRIM", "TIDAK_TERKIRIM"},
      TERKIRIM |-> {},
      TIDAK_TERKIRIM |-> {"DISETUJUI"} ]

\* statusTransitionMap[currentStatus]?.includes(newStatus) ?? false
validateStatusTransition(currentStatus, newStatus) ==
    IF currentStatus \in DOMAIN statusTransitionMap
    THEN newStatus \in statusTransitionMap[currentStatus]
    ELSE FALSE

\* The strings requests carry, and z.string().trim() on them
Blank == "   "
TextInputs == {"", Blank, "rusak", " rusak "}

Trim(s) ==
    CASE s = Blank -> ""
      [] s = " rusak " -> "rusak"
      [] OTHER -> s

\* z.string().uuid(): the well-formed ids of the model
OrderId == "7d0f6c1e-0000-4000-8000-000000000001"
VisitId == "7d0f6c1e-0000-4000-8000-000000000003"
StoreId == "7d0f6c1e-0000-4000-8000-000000000002"
ProductIds == {"7d0f6c1e-0000-4000-8000-0000000000a1", "7d0f6c1e-0000-4000-8000-0000000000a2"}
Uuids == UserIds \cup {OrderId, StoreId, VisitId} \cup ProductIds

\* z.string().trim().nullable().optional()
TrimNullableOptional(v) == IF v \in {Undefined, Null} THEN v ELSE Trim(v)
IsOptionalNullableString(v) == v \in {Undefined, Null} \cup TextInputs

\* z.string().trim().optional()
IsOptionalString(v) == v \in {Undefined} \cup TextInputs

DateInputs == {"2025-06-01"}
IsOptionalNullableDate(v) == v \in {Undefined, Null} \cup DateInputs

\* UpdateOrderStatusSchema.safeParse(data).success
UpdateOrderStatusSchema(data) ==
    /\ data.id \in Uuids
    /\ data.currentStatus \in OrderStatus
    /\ data.newStatus \in OrderStatus
    /\ IsOptionalNullableString(data.rejectionReason)
    /\ IsOptionalNullableDate(data.deliveryDate)
    /\ data.userId \in Uuids
    /\ IsOptionalString(data.notes)
    /\ validateStatusTransition(data.currentStatus, data.newStatus)

\* The history entry an accepted request is recorded as
StatusHistoryEntry(data, timestamp) ==
    [ status |-> data.newStatus,
      timestamp |-> timestamp,
      userId |-> data.userId,
      notes |-> IF data.notes = Undefined THEN Undefined ELSE Trim(data.notes) ]

\* Faulty variant: an accepted request overwrites the newest entry instead of appending.
RecordTransition_Overwrite(history, data) ==
    IF history = <<>>
    THEN <<StatusHistoryEntry(data, 1)>>
    ELSE [history EXCEPT ![Len(history)] = StatusHistoryEntry(data, Len(history))]

RecordTransition(history, data) ==
    Append(history, StatusHistoryEntry(data, Len(history) + 1))

Clients == UserIds
NoRead == "<none>"
NoRequest == [op |-> "none", accepted |-> FALSE]

\* How many transitions of the order the model follows
MaxHistory == 3

\* A client reads the order: the status it will quote as currentStatus
ReadOrder(c) ==
    /\ Len(statusHistory) < MaxHistory
    /\ believed[c] # status \/ readAt[c] # Len(statusHistory)
    /\ believed' = [believed EXCEPT ![c] = status]
    /\ readAt' = [readAt EXCEPT ![c] = Len(statusHistory)]
    /\ UNCHANGED <<authz, status, statusHistory, basedOn, last, validation>>
    /\ UNCHANGED tableVars

\* The request client c builds from its read
StatusRequest(c, newStatus, payload) ==
    [ id |-> payload.id,
      currentStatus |-> believed[c],
      newStatus |-> newStatus,
      rejectionReason |-> payload.rejectionReason,
      deliveryDate |-> payload.deliveryDate,
      userId |-> c,
      notes |-> payload.notes ]

\* The optional fields the requests of the model carry
PayloadInputs ==
    { [id |-> OrderId, rejectionReason |-> Undefined, deliveryDate |-> Undefined,
       notes |-> Undefined],
      [id |-> OrderId, rejectionReason |-> Null, deliveryDate |-> Null,
       notes |-> Undefined],
      [id |-> OrderId, rejectionReason |-> Blank, deliveryDate |-> Undefined,
       notes |-> Undefined],
      [id |-> OrderId, rejectionReason |-> "rusak", deliveryDate |-> Undefined,
       notes |-> " rusak "],
      [id |-> OrderId, rejectionReason |-> Undefined, deliveryDate |-> "2025-06-01",
       notes |-> Undefined],
      [id |-> OrderId, rejectionReason |-> Undefined, deliveryDate |-> Undefined,
       notes |-> Null],
      [id |-> "17", rejectionReason |-> "rusak", deliveryDate |-> Undefined,
       notes |-> Undefined] }

\* The request of client c is validated by UpdateOrderStatusSchema and, when
\* the schema accepts it, applied to the stored order.
SubmitStatusChange(c) ==
    /\ believed[c] # NoRead
    /\ Len(statusHistory) < MaxHistory
    /\ \E newStatus \in OrderStatus, payload \in PayloadInputs :
        LET data == StatusRequest(c, newStatus, payload)
            accepted == UpdateOrderStatusSchema(data)
        IN /\ last' = [ op |-> "statusChange",
                        data |-> data,
                        accepted |-> accepted,
                        statusBefore |-> status,
                        readAt |-> readAt[c] ]
           /\ IF accepted
              THEN /\ status' = data.newStatus
                   /\ statusHistory' = RecordTransition(statusHistory, data)
                   /\ basedOn' = Append(basedOn, readAt[c])
              ELSE UNCHANGED <<status, statusHistory, basedOn>>
    /\ believed' = [believed EXCEPT ![c] = NoRead]
    /\ readAt' = [readAt EXCEPT ![c] = 0]
    /\ UNCHANGED <<authz, validation>>
    /\ UNCHANGED tableVars

(***************************************************************************)
(* zod: values, parse results and the combinators the schemas are built of  *)
(***************************************************************************)

\* JavaScript values of the numeric and boolean request fields. A number is
\* its sign, its integer part and its fraction in thousandths; a number that
\* toString writes in exponent form (1e21 and above, below 1e-6) is its
\* mantissa and its exponent.
Undef == [t |-> "undefined"]
NullV == [t |-> "null"]
NaN == [t |-> "NaN"]
Num(int, frac) == [t |-> "number", neg |-> FALSE, int |-> int, frac |-> frac]
Minus(int, frac) == [t |-> "number", neg |-> TRUE, int |-> int, frac |-> frac]
Sci(int, frac, exp) ==
    [t |-> "number", neg |-> FALSE, int |-> int, frac |-> frac, exp |-> exp]
Exponent(val) == IF "exp" \in DOMAIN val THEN val.exp ELSE 0
Str(s) == [t |-> "string", s |-> s]
Bool(b) == [t |-> "boolean", b |-> b]

\* parseFloat on the numeric strings of the model
parseFloat(s) ==
    CASE s = "150" -> Num(150, 0)
      [] s = "100" -> Num(100, 0)
      [] s = "99.5" -> Num(99, 500)
      [] s = "-5" -> Minus(5, 0)
      [] s = "1e21" -> Sci(1, 0, 21)
      [] OTHER -> NaN

\* val >= 0, val > 0 and val <= n on numbers
IsNonNegative(val) == ~val.neg \/ (val.int = 0 /\ val.frac = 0)
IsPositive(val) == ~val.neg /\ (val.int > 0 \/ val.frac > 0)
Leq(val, n) ==
    IF Exponent(val) > 0 THEN val.neg
    ELSE IF Exponent(val) < 0 THEN val.neg \/ n >= 1
    ELSE val.neg \/ val.int < n \/ (val.int = n /\ val.frac = 0)

\* A parse result: zod's status, the paths of its issues, the parsed value
Valid(v) == [status |-> "valid", issues |-> {}, value |-> v]
Dirty(v) == [status |-> "dirty", issues |-> {<<>>}, value |-> v]
Aborted == [status |-> "aborted", issues |-> {<<>>}, value |-> Undef]

Success(r) == r.status = "valid"

Prefix(key, issues) == {<<key>> \o path : path \in issues}

\* z.object({...}) from the results of its fields
ObjectResult(fields) ==
    [ status |-> IF \E k \in DOMAIN fields : fields[k].status = "aborted" THEN "aborted"
                 ELSE IF \E k \in DOMAIN fields : fields[k].status = "dirty" THEN "dirty"
                 ELSE "valid",
      issues |-> UNION {Prefix(k, fields[k].issues) : k \in DOMAIN fields},
      value |-> [k \in DOMAIN fields |-> fields[k].value] ]

\* schema.refine(check, {path}), `holds` being check(r.value): skipped when the
\* parse aborted, run otherwise
Refine(r, holds, path) ==
    IF r.status = "aborted" \/ holds
    THEN r
    ELSE [status |-> "dirty", issues |-> r.issues \cup {path}, value |-> r.value]

\* z.array(element).min(1) from the results of its elements
ArrayMin1Result(elements) ==
    LET n == Len(elements) IN
    [ status |-> IF \E k \in 1..n : elements[k].status = "aborted" THEN "aborted"
                 ELSE IF n = 0 \/ \E k \in 1..n : elements[k].status = "dirty" THEN "dirty"
                 ELSE "valid",
      issues |-> UNION {Prefix(ToString(k - 1), elements[k].issues) : k \in 1..n}
                 \cup (IF n = 0 THEN {<<>>} ELSE {}),
      value |-> [k \in 1..n |-> elements[k].value] ]

ZUuid(v) == IF v \in Uuids THEN Valid(v) ELSE Dirty(v)

\* z.string().trim().nullable().optional()
ZTrimmedNullableOptional(v) ==
    IF IsOptionalNullableString(v) THEN Valid(TrimNullableOptional(v)) ELSE Aborted

\* z.enum(values).nullable().optional()
ZEnumNullableOptional(values, v) ==
    IF v \in values \cup {Undefined, Null} THEN Valid(v) ELSE Aborted

\* z.enum(values).default(d)
ZEnumDefault(values, d, v) ==
    IF v = Undefined THEN Valid(d) ELSE IF v \in values THEN Valid(v) ELSE Aborted

\* z.boolean().optional()
ZBooleanOptional(v) == IF v.t \in {"boolean", "undefined"} THEN Valid(v) ELSE Aborted

\* z.number().int().positive()
ZPositiveInt(v) ==
    IF v.t # "number" THEN Aborted
    ELSE IF v.frac = 0 /\ IsPositive(v) THEN Valid(v) ELSE Dirty(v)

RECURSIVE DigitCount(_)
DigitCount(n) == IF n < 10 THEN 1 ELSE 1 + DigitCount(n \div 10)

\* The digits toString writes after the point, and the characters of its
\* exponent part ("e+21", "e-7"), none for a number written in full
FractionLength(val) ==
    IF val.frac = 0 THEN 0
    ELSE IF val.frac % 100 = 0 THEN 1
    ELSE IF val.frac % 10 = 0 THEN 2
    ELSE 3

ExponentLength(val) ==
    IF Exponent(val) = 0 THEN 0
    ELSE 2 + DigitCount(IF Exponent(val) < 0 THEN -Exponent(val) ELSE Exponent(val))

\* val.toString().split("."): the lengths of the two parts. The exponent part
\* is in the first part when the number has no point, in the second otherwise
IntegerLength(val) ==
    DigitCount(val.int)
    + (IF val.neg /\ (val.int > 0 \/ val.frac > 0) THEN 1 ELSE 0)
    + (IF val.frac = 0 THEN ExponentLength(val) ELSE 0)
DecimalLength(val) ==
    IF val.frac = 0 THEN 0 ELSE FractionLength(val) + ExponentLength(val)

\* Faulty variant: an amount of zero is refused.
decimalSchema_RejectsZero(maxDigits, decimalPlaces, v) ==
    IF v.t \notin {"string", "number"} THEN Aborted
    ELSE LET val == IF v.t = "string" THEN parseFloat(v.s) ELSE v IN
         IF val = NaN THEN Aborted
         ELSE IF /\ IsPositive(val)
                 /\ IntegerLength(val) <= maxDigits - decimalPlaces
                 /\ DecimalLength(val) <= decimalPlaces
         THEN Valid(val)
         ELSE Dirty(val)

\* decimalSchema(maxDigits, decimalPlaces): a string is parsed (a string that
\* is no number makes the transform throw), then both refinements run
decimalSchema(maxDigits, decimalPlaces, v) ==
    IF v.t \notin {"string", "number"} THEN Aborted
    ELSE LET val == IF v.t = "string" THEN parseFloat(v.s) ELSE v IN
         IF val = NaN THEN Aborted
         ELSE IF /\ IsNonNegative(val)
                 /\ IntegerLength(val) <= maxDigits - decimalPlaces
                 /\ DecimalLength(val) <= decimalPlaces
         THEN Valid(val)
         ELSE Dirty(val)

\* decimalSchema(...).default(0), .optional() and .nullable().optional()
DecimalDefault0(maxDigits, decimalPlaces, v) ==
    decimalSchema(maxDigits, decimalPlaces, IF v = Undef THEN Num(0, 0) ELSE v)

DecimalOptional(maxDigits, decimalPlaces, v) ==
    IF v = Undef THEN Valid(v) ELSE decimalSchema(maxDigits, decimalPlaces, v)

DecimalNullableOptional(maxDigits, decimalPlaces, v) ==
    IF v \in {Undef, NullV} THEN Valid(v) ELSE decimalSchema(maxDigits, decimalPlaces, v)

(***************************************************************************)
(* Order validator: the item and order request schemas                     *)
(***************************************************************************)

PriceTypeEnum == {"GROSIR", "SEMI_GROSIR", "RETAIL", "MODERN", "CUSTOM"}
DiscountTypeEnum == {"PERCENTAGE", "FIXED"}

createOrderItemBaseSchema(item) ==
    ObjectResult(
      [ productId |-> ZUuid(item.productId),
        quantity |-> ZPositiveInt(item.quantity),
        priceType |-> ZEnumDefault(PriceTypeEnum, "MODERN", item.priceType),
        customPrice |-> DecimalNullableOptional(8, 2, item.customPrice),
        customPriceReason |-> ZTrimmedNullableOptional(item.customPriceReason),
        itemDiscountType |-> ZEnumNullableOptional(DiscountTypeEnum, item.itemDiscountType),
        itemDiscountValue |-> DecimalDefault0(10, 2, item.itemDiscountValue),
        itemDiscountDescription |->
            ZTrimmedNullableOptional(item.itemDiscountDescription) ])

\* createOrderItemBaseSchema.extend({id, isDeleted})
updateOrderItemBaseSchema(item) ==
    ObjectResult(
      [ productId |-> ZUuid(item.productId),
        quantity |-> ZPositiveInt(item.quantity),
        priceType |-> ZEnumDefault(PriceTypeEnum, "MODERN", item.priceType),
        customPrice |-> DecimalNullableOptional(8, 2, item.customPrice),
        customPriceReason |-> ZTrimmedNullableOptional(item.customPriceReason),
        itemDiscountType |-> ZEnumNullableOptional(DiscountTypeEnum, item.itemDiscountType),
        itemDiscountValue |-> DecimalDefault0(10, 2, item.itemDiscountValue),
        itemDiscountDescription |->
            ZTrimmedNullableOptional(item.itemDiscountDescription),
        id |-> IF item.id = Undefined THEN Valid(item.id) ELSE ZUuid(item.id),
        isDeleted |-> ZBooleanOptional(item.isDeleted) ])

\* Faulty variant: a custom price of zero passes.
CustomPriceGiven_ZeroPasses(data) ==
    \/ data.priceType # "CUSTOM"
    \/ (data.customPrice \notin {NullV, Undef} /\ IsNonNegative(data.customPrice))

\* The three refinements the create and the update item schema share
CustomPriceGiven(data) ==
    \/ data.priceType # "CUSTOM"
    \/ (data.customPrice \notin {NullV, Undef} /\ IsPositive(data.customPrice))

CustomPriceReasonGiven(data) ==
    \/ data.priceType # "CUSTOM"
    \/ (data.customPriceReason \notin {Null, Undefined} /\ Trim(data.customPriceReason) # "")

\* Faulty variant: the item refinement compares against 1000.
ItemPercentageInRange_Thousand(data) ==
    data.itemDiscountType # "PERCENTAGE" \/ Leq(data.itemDiscountValue, 1000)

ItemPercentageInRange(data) ==
    data.itemDiscountType # "PERCENTAGE" \/ Leq(data.itemDiscountValue, 100)

CreateOrderItemSchema(item) ==
    LET base == createOrderItemBaseSchema(item)
        first == Refine(base, CustomPriceGiven(base.value), <<"customPrice">>)
        second == Refine(first, CustomPriceReasonGiven(base.value), <<"customPriceReason">>)
    IN Refine(second, ItemPercentageInRange(base.value), <<"itemDiscountValue">>)

UpdateOrderItemSchema(item) ==
    LET base == updateOrderItemBaseSchema(item)
        first == Refine(base, CustomPriceGiven(base.value), <<"customPrice">>)
        second == Refine(first, CustomPriceReasonGiven(base.value), <<"customPriceReason">>)
    IN Refine(second, ItemPercentageInRange(base.value), <<"itemDiscountValue">>)

createOrderBaseSchema(req) ==
    ObjectResult(
      [ storeId |-> ZUuid(req.storeId),
        salesId |-> ZUuid(req.salesId),
        visitId |-> IF req.visitId \in {Undefined, Null}
                    THEN Valid(req.visitId) ELSE ZUuid(req.visitId),
        orderDiscountType |->
            ZEnumNullableOptional(DiscountTypeEnum, req.orderDiscountType),
        orderDiscountValue |-> DecimalDefault0(10, 2, req.orderDiscountValue),
        orderDiscountDescription |->
            ZTrimmedNullableOptional(req.orderDiscountDescription),
        notes |-> ZTrimmedNullableOptional(req.notes),
        items |-> ArrayMin1Result(
                    [k \in 1..Len(req.items) |-> CreateOrderItemSchema(req.items[k])]) ])

CreateOrderPercentageInRange(data) ==
    data.orderDiscountType # "PERCENTAGE" \/ Leq(data.orderDiscountValue, 100)

\* new Set(productIds).size === productIds.length
NoDuplicates(productIds) ==
    Cardinality({productIds[k] : k \in 1..Len(productIds)}) = Len(productIds)

CreateOrderNoDuplicateProducts(data) ==
    NoDuplicates([k \in 1..Len(data.items) |-> data.items[k].productId])

CreateOrderSchema(req) ==
    LET base == createOrderBaseSchema(req)
        first == Refine(base, CreateOrderPercentageInRange(base.value),
                        <<"orderDiscountValue">>)
    IN Refine(first, CreateOrderNoDuplicateProducts(base.value), <<"items">>)

updateOrderBaseSchema(req) ==
    ObjectResult(
      [ id |-> ZUuid(req.id),
        orderDiscountType |->
            ZEnumNullableOptional(DiscountTypeEnum, req.orderDiscountType),
        orderDiscountValue |-> DecimalOptional(10, 2, req.orderDiscountValue),
        orderDiscountDescription |->
            ZTrimmedNullableOptional(req.orderDiscountDescription),
        notes |-> ZTrimmedNullableOptional(req.notes),
        deliveryDate |-> IF IsOptionalNullableDate(req.deliveryDate)
                         THEN Valid(req.deliveryDate) ELSE Aborted,
        items |-> ArrayMin1Result(
                    [k \in 1..Len(req.items) |-> UpdateOrderItemSchema(req.items[k])]) ])

UpdateOrderPercentageInRange(data) ==
    \/ data.orderDiscountType # "PERCENTAGE"
    \/ data.orderDiscountValue = Undef
    \/ Leq(data.orderDiscountValue, 100)

\* Faulty variant: the filter keeps the items marked deleted.
NonDeleted_KeepsDeleted(items) == items

\* data.items.filter((item) => !item.isDeleted)
NonDeleted(items) == SelectSeq(items, LAMBDA item : item.isDeleted # Bool(TRUE))

UpdateOrderNoDuplicateProducts(data) ==
    LET nonDeletedItems == NonDeleted(data.items)
    IN NoDuplicates([k \in 1..Len(nonDeletedItems) |-> nonDeletedItems[k].productId])

UpdateOrderSchema(req) ==
    LET base == updateOrderBaseSchema(req)
        first == Refine(base, UpdateOrderPercentageInRange(base.value),
                        <<"orderDiscountValue">>)
    IN Refine(first, UpdateOrderNoDuplicateProducts(base.value), <<"items">>)

\* The discounts the requests of the model carry on an item ...
ItemDiscountInputs ==
    { [type |-> Undefined, value |-> Undef],
      [type |-> "PERCENTAGE", value |-> Num(100, 0)],
      [type |-> "PERCENTAGE", value |-> Num(100, 10)],
      [type |-> "PERCENTAGE", value |-> Str("150")],
      [type |-> "FIXED", value |-> Num(150, 0)] }

\* ... and on the order
DiscountInputs ==
    { [type |-> Undefined, value |-> Undef],
      [type |-> "PERCENTAGE", value |-> Undef],
      [type |-> "PERCENTAGE", value |-> Num(100, 0)],
      [type |-> "PERCENTAGE", value |-> Num(100, 10)],
      [type |-> "PERCENTAGE", value |-> Str("150")],
      [type |-> "PERCENTAGE", value |-> Str("seratus")],
      [type |-> "FIXED", value |-> Num(150, 0)],
      [type |-> Null, value |-> Num(150, 0)] }

CreateItem(productId, discount) ==
    [ productId |-> productId,
      quantity |-> Num(1, 0),
      priceType |-> Undefined,
      customPrice |-> Undef,
      customPriceReason |-> Undefined,
      itemDiscountType |-> discount.type,
      itemDiscountValue |-> discount.value,
      itemDiscountDescription |-> Undefined ]

UpdateItem(productId, discount, isDeleted) ==
    [ productId |-> productId,
      quantity |-> Num(1, 0),
      priceType |-> Undefined,
      customPrice |-> Undef,
      customPriceReason |-> Undefined,
      itemDiscountType |-> discount.type,
      itemDiscountValue |-> discount.value,
      itemDiscountDescription |-> Undefined,
      id |-> Undefined,
      isDeleted |-> isDeleted ]

CreateItemInputs ==
    {CreateItem(productId, discount) :
        productId \in ProductIds, discount \in ItemDiscountInputs}

UpdateItemInputs ==
    {UpdateItem(productId, discount, isDeleted) :
        productId \in ProductIds, discount \in ItemDiscountInputs,
        isDeleted \in {Undef, Bool(TRUE)}}

\* The price type, custom price and reason the priced items of the model carry
PriceInputs ==
    { [priceType |-> priceType, customPrice |-> customPrice,
       customPriceReason |-> customPriceReason] :
      priceType \in {Undefined, "GROSIR", "CUSTOM"},
      customPrice \in {Undef, NullV, Num(0, 0), Num(50, 0), Str("99.5"), Minus(5, 0)},
      customPriceReason \in {Undefined, Null} \cup TextInputs }

CreatePricedItem(productId, price) ==
    [ productId |-> productId,
      quantity |-> Num(1, 0),
      priceType |-> price.priceType,
      customPrice |-> price.customPrice,
      customPriceReason |-> price.customPriceReason,
      itemDiscountType |-> Undefined,
      itemDiscountValue |-> Undef,
      itemDiscountDescription |-> Undefined ]

UpdatePricedItem(productId, price) ==
    [ productId |-> productId,
      quantity |-> Num(1, 0),
      priceType |-> price.priceType,
      customPrice |-> price.customPrice,
      customPriceReason |-> price.customPriceReason,
      itemDiscountType |-> Undefined,
      itemDiscountValue |-> Undef,
      itemDiscountDescription |-> Undefined,
      id |-> Undefined,
      isDeleted |-> Undef ]

\* How many items a request of the model carries at most
MaxItems == 2

ItemLists(pool) == UNION {[1..n -> pool] : n \in 0..MaxItems}

CreateRequests ==
    { [ storeId |-> StoreId,
        salesId |-> "u1",
        visitId |-> Undefined,
        orderDiscountType |-> discount.type,
        orderDiscountValue |-> discount.value,
        orderDiscountDescription |-> Undefined,
        notes |-> Undefined,
        items |-> items ] :
      discount \in DiscountInputs, items \in ItemLists(CreateItemInputs) }

UpdateRequests ==
    { [ id |-> OrderId,
        orderDiscountType |-> discount.type,
        orderDiscountValue |-> discount.value,
        orderDiscountDescription |-> Undefined,
        notes |-> Undefined,
        deliveryDate |-> Undefined,
        items |-> items ] :
      discount \in DiscountInputs, items \in ItemLists(UpdateItemInputs) }

\* Requests of one priced item, alone or after an item at the default price
PricedCreateRequests ==
    { [ storeId |-> StoreId,
        salesId |-> "u1",
        visitId |-> Undefined,
        orderDiscountType |-> Undefined,
        orderDiscountValue |-> Undef,
        orderDiscountDescription |-> Undefined,
        notes |-> Undefined,
        items |-> items ] :
      items \in UNION { { <<CreatePricedItem(productId, price)>>,
                          <<CreateItem(other, [type |-> Undefined, value |-> Undef]),
                            CreatePricedItem(productId, price)>> } :
                        productId \in ProductIds, other \in ProductIds,
                        price \in PriceInputs } }

PricedUpdateRequests ==
    { [ id |-> OrderId,
        orderDiscountType |-> Undefined,
        orderDiscountValue |-> Undef,
        orderDiscountDescription |-> Undefined,
        notes |-> Undefined,
        deliveryDate |-> Undefined,
        items |-> items ] :
      items \in UNION { { <<UpdatePricedItem(productId, price)>>,
                          <<UpdateItem(other, [type |-> Undefined, value |-> Undef], Undef),
                            UpdatePricedItem(productId, price)>> } :
                        productId \in ProductIds, other \in ProductIds,
                        price \in PriceInputs } }

\* A request is handed to the validator ...
Request(mode, req) == [op |-> "request", mode |-> mode, req |-> req]

\* ... and CreateOrderSchema / UpdateOrderSchema decide it
ValidateCreateOrder ==
    /\ validation.op = "request"
    /\ validation.mode = "create"
    /\ validation' = [ op |-> "validated",
                       mode |-> "create",
                       req |-> validation.req,
                       result |-> CreateOrderSchema(validation.req) ]
    /\ UNCHANGED <<authz, status, statusHistory, believed, readAt, basedOn, last>>
    /\ UNCHANGED tableVars

ValidateUpdateOrder ==
    /\ validation.op = "request"
    /\ validation.mode = "update"
    /\ validation' = [ op |-> "validated",
                       mode |-> "update",
                       req |-> validation.req,
                       result |-> UpdateOrderSchema(validation.req) ]
    /\ UNCHANGED <<authz, status, statusHistory, believed, readAt, basedOn, last>>
    /\ UNCHANGED tableVars

(***************************************************************************)
(* Order numbers: generateOrderNumber and the unique column orderNumber    *)
(***************************************************************************)

\* A string that is put together from parts is the sequence of its characters
DigitChars == <<"0", "1", "2", "3", "4", "5", "6", "7", "8", "9">>

\* String(n) of a natural number
RECURSIVE String(_)
String(n) ==
    IF n < 10 THEN <<DigitChars[n + 1]>>
    ELSE String(n \div 10) \o <<DigitChars[(n % 10) + 1]>>

\* str.padStart(targetLength, padString), padString being one character
RECURSIVE padStart(_, _, _)
padStart(str, targetLength, padString) ==
    IF Len(str) >= targetLength THEN str
    ELSE padStart(<<padString>> \o str, targetLength, padString)

\* generateOrderNumber(sequence), `now` being what new Date() gives: its
\* getFullYear(), getMonth() (from 0) and getDate()
generateOrderNumber(sequence, now) ==
    LET year == String(now.year)
        month == padStart(String(now.month + 1), 2, "0")
        day == padStart(String(now.date), 2, "0")
        dateStr == year \o month \o day
        seq == padStart(String(sequence), 3, "0")
    IN <<"P", "O", "-">> \o dateStr \o <<"-">> \o seq

NoCall == [op |-> "none"]

SequenceInputs == {1, 2, 9, 10, 99, 100, 999, 1000}

NowInputs ==
    { [year |-> year, month |-> month, date |-> date] :
      year \in {2024, 2025}, month \in {0, 4, 9, 11}, date \in {1, 9, 10, 29} }

OrderNumberCalls ==
    { [op |-> "call", fn |-> "generateOrderNumber", sequence |-> sequence, now |-> now] :
      sequence \in SequenceInputs, now \in NowInputs }

GenerateOrderNumber ==
    /\ call.op = "call"
    /\ call.fn = "generateOrderNumber"
    /\ call' = [ op |-> "generateOrderNumber",
                 sequence |-> call.sequence,
                 now |-> call.now,
                 result |-> generateOrderNumber(call.sequence, call.now) ]
    /\ UNCHANGED <<authz, status, statusHistory, believed, readAt, basedOn, last, validation>>
    /\ UNCHANGED content
    /\ UNCHANGED <<today, orders, creating>>

\* The days the order table is followed over, and how many rows it gets
Days ==
    << [year |-> 2025, month |-> 4, date |-> 29],
       [year |-> 2025, month |-> 4, date |-> 30] >>

MaxOrders == 3

Idle == [pc |-> "idle"]

\* The sequence number of the next order of the day: one more than the orders
\* the table holds for that day
NextSequence(rows, now) ==
    Cardinality({k \in 1..Len(rows) : rows[k].orderDate = now}) + 1

\* Faulty variant: the column is not unique.
UniqueOrderNumber_NotEnforced(rows, orderNumber) == TRUE

\* orderNumber String @unique: the insert of a row is refused when a row of the
\* table has its orderNumber
UniqueOrderNumber(rows, orderNumber) ==
    \A k \in 1..Len(rows) : rows[k].orderNumber # orderNumber

\* Client c reads the table and generates the number of its order ...
GenerateNumber(c) ==
    /\ creating[c].pc \in {"idle", "conflict"}
    /\ Len(orders) + Cardinality({d \in Clients : creating[d].pc = "insert"}) < MaxOrders
    /\ creating' = [creating EXCEPT ![c] =
                      [ pc |-> "insert",
                        orderNumber |->
                            generateOrderNumber(NextSequence(orders, today), today) ]]
    /\ UNCHANGED <<authz, status, statusHistory, believed, readAt, basedOn, last, validation>>
    /\ UNCHANGED content
    /\ UNCHANGED <<call, today, orders>>

\* ... and inserts the order, which the unique index lets through or not
InsertOrder(c) ==
    /\ creating[c].pc = "insert"
    /\ IF UniqueOrderNumber(orders, creating[c].orderNumber)
       THEN /\ orders' = Append(orders, [ orderNumber |-> creating[c].orderNumber,
                                          orderDate |-> today,
                                          salesId |-> c ])
            /\ creating' = [creating EXCEPT ![c] = Idle]
       ELSE /\ creating' = [creating EXCEPT ![c] =
                              [pc |-> "conflict", orderNumber |-> creating[c].orderNumber]]
            /\ UNCHANGED orders
    /\ UNCHANGED <<authz, status, statusHistory, believed, readAt, basedOn, last, validation>>
    /\ UNCHANGED content
    /\ UNCHANGED <<call, today>>

\* Midnight
NextDay ==
    /\ \E k \in 1..(Len(Days) - 1) : today = Days[k] /\ today' = Days[k + 1]
    /\ UNCHANGED <<authz, status, statusHistory, believed, readAt, basedOn, last, validation>>
    /\ UNCHANGED content
    /\ UNCHANGED <<call, orders, creating>>

\* No helper called, no order stored
InitTable ==
    /\ call = NoCall
    /\ today = Days[1]
    /\ orders = <<>>
    /\ creating = [c \in Clients |-> Idle]
    /\ content = [items |-> <<>>, orderDiscountType |-> Undefined, orderDiscountValue |-> Undef]

(***************************************************************************)
(* BusinessRules: who may edit an order, who needs a visit to create one   *)
(***************************************************************************)

\* Faulty variant: a sales user may edit the draft of a colleague.
canEditOrder_AnyDraft(role, orderStatus, userId, orderOwnerId) ==
    IF role = "ADMIN" THEN TRUE
    ELSE IF role = "SALES" /\ orderStatus = "DRAFT" THEN TRUE
    ELSE FALSE

\* Faulty variant: a sales user may edit an own order in any status.
canEditOrder_OwnAnyStatus(role, orderStatus, userId, orderOwnerId) ==
    IF role = "ADMIN" THEN TRUE
    ELSE IF role = "SALES" /\ userId = orderOwnerId THEN TRUE
    ELSE FALSE

canEditOrder(role, orderStatus, userId, orderOwnerId) ==
    IF role = "ADMIN" THEN TRUE
    ELSE IF role = "SALES" /\ orderStatus = "DRAFT" /\ userId = orderOwnerId THEN TRUE
    ELSE FALSE

\* Faulty variant: every role needs a visit.
isVisitRequiredForOrder_Always(role) == TRUE

isVisitRequiredForOrder(role) == role = "SALES"

CanEditOrderCalls ==
    { [ op |-> "call", fn |-> "canEditOrder", role |-> role, orderStatus |-> orderStatus,
        userId |-> userId, orderOwnerId |-> orderOwnerId ] :
      role \in RoleInputs, orderStatus \in OrderStatus,
      userId \in IdInputs, orderOwnerId \in IdInputs }

IsVisitRequiredCalls ==
    { [op |-> "call", fn |-> "isVisitRequiredForOrder", role |-> role] :
      role \in RoleInputs }

CanEditOrder ==
    /\ call.op = "call"
    /\ call.fn = "canEditOrder"
    /\ call' = [ op |-> "canEditOrder",
                 role |-> call.role,
                 orderStatus |-> call.orderStatus,
                 userId |-> call.userId,
                 orderOwnerId |-> call.orderOwnerId,
                 result |-> canEditOrder(call.role, call.orderStatus,
                                         call.userId, call.orderOwnerId) ]
    /\ UNCHANGED <<authz, status, statusHistory, believed, readAt, basedOn, last, validation>>
    /\ UNCHANGED content
    /\ UNCHANGED <<today, orders, creating>>

IsVisitRequiredForOrder ==
    /\ call.op = "call"
    /\ call.fn = "isVisitRequiredForOrder"
    /\ call' = [ op |-> "isVisitRequiredForOrder",
                 role |-> call.role,
                 result |-> isVisitRequiredForOrder(call.role) ]
    /\ UNCHANGED <<authz, status, statusHistory, believed, readAt, basedOn, last, validation>>
    /\ UNCHANGED content
    /\ UNCHANGED <<today, orders, creating>>

(***************************************************************************)
(* The Create and Update handlers: permission, business rule and schema    *)
(* decide a request together; an accepted request is applied               *)
(***************************************************************************)

\* The sales user the order under edit belongs to
OrderOwner == "u1"

NoDiscount == [type |-> Undefined, value |-> Undef]

\* The items the edits of the model send, all of one product: the item as it
\* is, with another quantity, with a discount, with a discount out of range,
\* at a custom price, and marked deleted
EditItemInputs ==
    LET productId == CHOOSE id \in ProductIds : TRUE
        plain == UpdateItem(productId, NoDiscount, Undef)
    IN { plain,
         [plain EXCEPT !.quantity = Num(2, 0)],
         UpdateItem(productId, [type |-> "FIXED", value |-> Num(150, 0)], Undef),
         UpdateItem(productId, [type |-> "PERCENTAGE", value |-> Num(100, 10)], Undef),
         UpdatePricedItem(productId, [ priceType |-> "CUSTOM",
                                       customPrice |-> Num(50, 0),
                                       customPriceReason |-> "rusak" ]),
         UpdateItem(productId, NoDiscount, Bool(TRUE)) }

EditRequest(item, discount) ==
    [ id |-> OrderId,
      orderDiscountType |-> discount.type,
      orderDiscountValue |-> discount.value,
      orderDiscountDescription |-> Undefined,
      notes |-> Undefined,
      deliveryDate |-> Undefined,
      items |-> <<item>> ]

EditRequests ==
    { EditRequest(item, discount) :
      item \in EditItemInputs,
      discount \in {NoDiscount, [type |-> "FIXED", value |-> Num(150, 0)]} }

\* What an accepted Update leaves stored: the items not marked deleted and the
\* order discount
StoredContent(data) ==
    [ items |-> NonDeleted(data.items),
      orderDiscountType |-> data.orderDiscountType,
      orderDiscountValue |-> data.orderDiscountValue ]

InitialContent ==
    StoredContent(
        UpdateOrderSchema(
            EditRequest(UpdateItem(CHOOSE id \in ProductIds : TRUE, NoDiscount, Undef),
                        NoDiscount)).value)

\* Faulty variant: the items of a rejected Update that parsed are stored.
ApplyUpdate_Partial(accepted, stored, data) ==
    IF accepted \/ data # Undef THEN StoredContent(data) ELSE stored

\* All or nothing: the stored content after an Update that was accepted or not
ApplyUpdate(accepted, stored, data) ==
    IF accepted THEN StoredContent(data) ELSE stored

\* User c, acting in some role, sends an Update of the order
SubmitUpdate(c) ==
    \E role \in UserRole, req \in EditRequests :
        LET permitted == hasPermission(role, "order:update", TRUE, c, Undefined)
                            = Return(TRUE)
            editable == canEditOrder(role, status, c, OrderOwner)
            result == UpdateOrderSchema(req)
            accepted == permitted /\ editable /\ Success(result)
        IN /\ last' = [ op |-> "update",
                        role |-> role,
                        userId |-> c,
                        req |-> req,
                        accepted |-> accepted,
                        statusBefore |-> status ]
           /\ content' = ApplyUpdate(accepted, content, result.value)
           /\ UNCHANGED <<authz, status, statusHistory, believed, readAt, basedOn,
                          validation>>
           /\ UNCHANGED <<call, today, orders, creating>>

\* The Create requests of the model: with and without a visit, with and
\* without an item
CreationRequests(c) ==
    { [ storeId |-> StoreId,
        salesId |-> c,
        visitId |-> visitId,
        orderDiscountType |-> Undefined,
        orderDiscountValue |-> Undef,
        orderDiscountDescription |-> Undefined,
        notes |-> Undefined,
        items |-> items ] :
      visitId \in {Undefined, Null, VisitId},
      items \in {<<>>, <<CreateItem(CHOOSE id \in ProductIds : TRUE, NoDiscount)>>} }

\* User c, acting in some role, sends a Create; an accepted order gets the
\* next number of the day and is stored
SubmitCreate(c) ==
    /\ Len(orders) < MaxOrders
    /\ \E role \in UserRole, req \in CreationRequests(c) :
        LET permitted == hasPermission(role, "order:create", TRUE, c, Undefined)
                            = Return(TRUE)
            visited == isVisitRequiredForOrder(role) => req.visitId \notin {Undefined, Null}
            result == CreateOrderSchema(req)
            accepted == permitted /\ visited /\ Success(result)
        IN /\ last' = [ op |-> "create",
                        role |-> role,
                        userId |-> c,
                        req |-> req,
                        accepted |-> accepted ]
           /\ orders' = IF accepted
                        THEN Append(orders,
                               [ orderNumber |->
                                     generateOrderNumber(NextSequence(orders, today), today),
                                 orderDate |-> today,
                                 salesId |-> c ])
                        ELSE orders
    /\ UNCHANGED <<authz, status, statusHistory, believed, readAt, basedOn, validation>>
    /\ UNCHANGED <<call, today, creating, content>>

(***************************************************************************)
(* Order records: OrderSchema and OrderItemSchema                          *)
(***************************************************************************)

\* z.date().optional() and z.string().nullable().optional()
ZDateOptional(v) == IF v \in {Undefined} \cup DateInputs THEN Valid(v) ELSE Aborted
ZDateNullableOptional(v) == IF IsOptionalNullableDate(v) THEN Valid(v) ELSE Aborted
ZStringNullableOptional(v) == IF IsOptionalNullableString(v) THEN Valid(v) ELSE Aborted

orderItemBaseSchema(item) ==
    [ productId |-> ZUuid(item.productId),
      quantity |-> ZPositiveInt(item.quantity),
      priceType |-> ZEnumDefault(PriceTypeEnum, "MODERN", item.priceType),
      unitPrice |-> decimalSchema(8, 2, item.unitPrice),
      customPrice |-> DecimalNullableOptional(8, 2, item.customPrice),
      customPriceReason |-> ZTrimmedNullableOptional(item.customPriceReason),
      itemDiscountType |-> ZEnumNullableOptional(DiscountTypeEnum, item.itemDiscountType),
      itemDiscountValue |-> DecimalDefault0(10, 2, item.itemDiscountValue),
      itemDiscountAmount |-> DecimalDefault0(12, 2, item.itemDiscountAmount),
      itemDiscountDescription |-> ZTrimmedNullableOptional(item.itemDiscountDescription),
      subtotal |-> decimalSchema(11, 2, item.subtotal),
      finalPrice |-> decimalSchema(10, 2, item.finalPrice) ]

\* orderItemBaseSchema.extend({id, orderId, createdAt, updatedAt})
OrderItemSchema(item) ==
    ObjectResult(
      orderItemBaseSchema(item) @@
      [ id |-> ZUuid(item.id),
        orderId |-> ZUuid(item.orderId),
        createdAt |-> ZDateOptional(item.createdAt),
        updatedAt |-> ZDateOptional(item.updatedAt) ])

orderBaseSchema(order) ==
    [ orderNumber |-> IF Len(order.orderNumber) >= 1
                      THEN Valid(order.orderNumber) ELSE Dirty(order.orderNumber),
      orderDate |-> ZDateOptional(order.orderDate),
      status |-> ZEnumDefault(OrderStatus, "DRAFT", order.status),
      subtotal |-> decimalSchema(11, 2, order.subtotal),
      total |-> decimalSchema(11, 2, order.total),
      orderDiscountType |-> ZEnumNullableOptional(DiscountTypeEnum, order.orderDiscountType),
      orderDiscountValue |-> DecimalDefault0(10, 2, order.orderDiscountValue),
      orderDiscountAmount |-> DecimalDefault0(12, 2, order.orderDiscountAmount),
      orderDiscountDescription |->
          ZTrimmedNullableOptional(order.orderDiscountDescription),
      notes |-> ZTrimmedNullableOptional(order.notes),
      deliveryDate |-> ZDateNullableOptional(order.deliveryDate),
      rejectionReason |-> ZTrimmedNullableOptional(order.rejectionReason),
      rejectedAt |-> ZDateNullableOptional(order.rejectedAt),
      rejectedBy |-> ZStringNullableOptional(order.rejectedBy),
      approvedAt |-> ZDateNullableOptional(order.approvedAt),
      approvedBy |-> ZStringNullableOptional(order.approvedBy),
      statusHistory |-> IF order.statusHistory \in {Undefined, Null}
                        THEN Valid(order.statusHistory) ELSE Aborted,
      salesId |-> ZUuid(order.salesId),
      storeId |-> ZUuid(order.storeId),
      visitId |-> IF order.visitId \in {Undefined, Null}
                  THEN Valid(order.visitId) ELSE ZUuid(order.visitId) ]

\* orderBaseSchema.extend({id, createdAt, updatedAt})
OrderSchema(order) ==
    ObjectResult(
      orderBaseSchema(order) @@
      [ id |-> ZUuid(order.id),
        createdAt |-> ZDateOptional(order.createdAt),
        updatedAt |-> ZDateOptional(order.updatedAt) ])

\* The amounts the records of the model carry
AmountInputs == {Num(5, 0), Num(80, 0), Num(100, 0), Num(180, 0), Num(200, 0)}

OrderRow(subtotal, orderDiscountAmount, total) ==
    [ id |-> OrderId,
      orderNumber |-> generateOrderNumber(1, Days[1]),
      orderDate |-> Undefined,
      status |-> Undefined,
      subtotal |-> subtotal,
      total |-> total,
      orderDiscountType |-> Undefined,
      orderDiscountValue |-> Undef,
      orderDiscountAmount |-> orderDiscountAmount,
      orderDiscountDescription |-> Undefined,
      notes |-> Undefined,
      deliveryDate |-> Undefined,
      rejectionReason |-> Undefined,
      rejectedAt |-> Undefined,
      rejectedBy |-> Undefined,
      approvedAt |-> Undefined,
      approvedBy |-> Undefined,
      statusHistory |-> Undefined,
      salesId |-> OrderOwner,
      storeId |-> StoreId,
      visitId |-> Undefined,
      createdAt |-> Undefined,
      updatedAt |-> Undefined ]

OrderItemRow(productId, unitPrice, quantity, discount, amounts) ==
    [ id |-> productId,
      orderId |-> OrderId,
      productId |-> productId,
      quantity |-> quantity,
      priceType |-> Undefined,
      unitPrice |-> unitPrice,
      customPrice |-> Undef,
      customPriceReason |-> Undefined,
      itemDiscountType |-> discount.type,
      itemDiscountValue |-> discount.value,
      itemDiscountAmount |-> amounts.itemDiscountAmount,
      itemDiscountDescription |-> Undefined,
      subtotal |-> amounts.subtotal,
      finalPrice |-> amounts.finalPrice,
      createdAt |-> Undefined,
      updatedAt |-> Undefined ]

\* Items of 100 each, one per product
OrderItemRows ==
    { [k \in 1..n |->
         OrderItemRow(ids[k], Num(100, 0), Num(1, 0), NoDiscount,
                      [ itemDiscountAmount |-> Undef,
                        subtotal |-> Num(100, 0),
                        finalPrice |-> Num(100, 0) ])] :
      n \in 1..2, ids \in [1..2 -> ProductIds] }

\* An order with its items, as stored
OrderRecords ==
    { [order |-> OrderRow(subtotal, orderDiscountAmount, total), items |-> items] :
      subtotal \in {Num(100, 0), Num(200, 0)},
      orderDiscountAmount \in {Undef, Num(0, 0), Num(20, 0)},
      total \in AmountInputs,
      items \in OrderItemRows }

\* OrderSchema decides the order, OrderItemSchema each of its items
ValidateOrderRecord ==
    /\ validation.op = "record"
    /\ validation' =
          [ op |-> "recordValidated",
            req |-> validation.req,
            result |->
                [ order |-> OrderSchema(validation.req.order),
                  items |-> [k \in 1..Len(validation.req.items) |->
                                OrderItemSchema(validation.req.items[k])] ] ]
    /\ UNCHANGED <<authz, status, statusHistory, believed, readAt, basedOn, last>>
    /\ UNCHANGED tableVars

(***************************************************************************)
(* Pricing of an item: subtotal, discount amount and final price           *)
(***************************************************************************)

\* An amount of at most two decimals in cents, and back
Cents(val) == (IF val.neg THEN -1 ELSE 1) * (val.int * 100 + (val.frac \div 10))

Money(cents) ==
    IF cents < 0
    THEN Minus((-cents) \div 100, ((-cents) % 100) * 10)
    ELSE Num(cents \div 100, (cents % 100) * 10)

\* subtotal = unitPrice * quantity
ItemSubtotal(unitPrice, quantity) == Money(Cents(unitPrice) * quantity.int)

\* PERCENTAGE: subtotal * value / 100, rounded half up to two decimals;
\* FIXED: min(value, subtotal)
DiscountAmount(type, value, subtotal) ==
    CASE type = "PERCENTAGE" -> Money((Cents(subtotal) * Cents(value) + 5000) \div 10000)
      [] type = "FIXED" -> IF Cents(value) <= Cents(subtotal) THEN value ELSE subtotal
      [] OTHER -> Num(0, 0)

\* finalPrice = subtotal - discountAmount
FinalPrice(subtotal, discountAmount) == Money(Cents(subtotal) - Cents(discountAmount))

\* The item as priced: the record OrderItemSchema is to accept
PricedItem(productId, unitPrice, quantity, discount) ==
    LET subtotal == ItemSubtotal(unitPrice, quantity)
        discountAmount == DiscountAmount(discount.type, discount.value, subtotal)
    IN OrderItemRow(productId, unitPrice, quantity, discount,
                    [ itemDiscountAmount |-> discountAmount,
                      subtotal |-> subtotal,
                      finalPrice |-> FinalPrice(subtotal, discountAmount) ])

PricingInputs ==
    { [ op |-> "price", productId |-> CHOOSE id \in ProductIds : TRUE,
        unitPrice |-> unitPrice, quantity |-> quantity, discount |-> discount ] :
      unitPrice \in {Num(100, 0), Num(33, 330), Num(0, 10), Num(150, 0)},
      quantity \in {Num(1, 0), Num(3, 0)},
      discount \in { NoDiscount,
                     [type |-> "FIXED", value |-> Num(0, 0)],
                     [type |-> "FIXED", value |-> Num(99, 990)],
                     [type |-> "FIXED", value |-> Num(100, 0)],
                     [type |-> "FIXED", value |-> Num(150, 0)],
                     [type |-> "PERCENTAGE", value |-> Num(10, 0)],
                     [type |-> "PERCENTAGE", value |-> Num(33, 330)],
                     [type |-> "PERCENTAGE", value |-> Num(100, 0)] } }

\* An item is priced and the record handed to OrderItemSchema
PriceItem ==
    /\ validation.op = "price"
    /\ LET item == PricedItem(validation.productId, validation.unitPrice,
                              validation.quantity, validation.discount)
       IN validation' = [ op |-> "priced",
                          item |-> item,
                          result |-> OrderItemSchema(item) ]
    /\ UNCHANGED <<authz, status, statusHistory, believed, readAt, basedOn, last>>
    /\ UNCHANGED tableVars

(***************************************************************************)
(* Products: the price schemas and the price hierarchy                     *)
(***************************************************************************)

\* val.toFixed(2) read back as a number: the nearest hundredth
toFixed2(val) ==
    LET hundredths == (val.frac + 5) \div 10 IN
    IF hundredths = 100
    THEN [val EXCEPT !.int = val.int + 1, !.frac = 0]
    ELSE [val EXCEPT !.frac = hundredths * 10]

\* val <= 999999.99
AtMostMaxPrice(val) ==
    val.neg \/ val.int < 999999 \/ (val.int = 999999 /\ val.frac <= 990)

\* createPriceSchema(fieldName): z.number().positive().max(999999.99), then
\* the transform, which a failed check skips
createPriceSchema(v) ==
    IF v.t # "number" THEN Aborted
    ELSE IF IsPositive(v) /\ AtMostMaxPrice(v) THEN Valid(toFixed2(v))
    ELSE Dirty(v)

\* clientPriceSchema(fieldName): a string is parsed (a string that is no
\* number makes the transform throw), then the two refinements and toFixed
clientPriceSchema(v) ==
    IF v.t \notin {"string", "number"} THEN Aborted
    ELSE LET val == IF v.t = "string" THEN parseFloat(v.s) ELSE v IN
         IF val = NaN THEN Aborted
         ELSE IF IsPositive(val) /\ AtMostMaxPrice(val) THEN Valid(toFixed2(val))
         ELSE Dirty(val)

ProductTypeEnum == {"BISCUIT", "CANDY"}

\* commonValidations.name: z.string().trim().min(2)
ZName(v) ==
    IF v \in {Undefined, Null} THEN Aborted
    ELSE IF Len(Trim(v)) >= 2 THEN Valid(Trim(v)) ELSE Dirty(Trim(v))

\* The product codes of the model that match /^[A-Z0-9-]+$/
CapitalCodes == {"WF-01", "W1"}

\* code: z.string().trim().min(3).regex(...).nullable().optional(), to which
\* the form adds .or(z.literal(""))
ZProductCode(v, emptyAllowed) ==
    IF v \in {Undefined, Null} THEN Valid(v)
    ELSE IF Len(Trim(v)) >= 3 /\ Trim(v) \in CapitalCodes THEN Valid(Trim(v))
    ELSE IF emptyAllowed /\ v = "" THEN Valid(v)
    ELSE Dirty(Trim(v))

\* The URLs of the model: well-formed ones, and those of them under https
WellFormedUrls == {"https://cdn.example/wafer.png", "http://cdn.example/wafer.png"}
HttpsUrls == {"https://cdn.example/wafer.png"}

\* commonValidations.url: z.string().url().refine(https).optional().nullable()
ZUrl(v) ==
    IF v \in {Undefined, Null} THEN Valid(v)
    ELSE IF v \in WellFormedUrls /\ v \in HttpsUrls THEN Valid(v)
    ELSE Dirty(v)

\* z.enum(values)
ZEnum(values, v) == IF v \in values THEN Valid(v) ELSE Aborted

\* z.boolean().default(true)
ZBooleanDefaultTrue(v) ==
    IF v = Undef THEN Valid(Bool(TRUE))
    ELSE IF v.t = "boolean" THEN Valid(v) ELSE Aborted

\* The fields of productBaseSchema
productBaseSchema(data, emptyCodeAllowed) ==
    [ name |-> ZName(data.name),
      code |-> ZProductCode(data.code, emptyCodeAllowed),
      imageUrl |-> ZUrl(data.imageUrl),
      description |-> ZTrimmedNullableOptional(data.description),
      category |-> ZEnum(ProductTypeEnum, data.category),
      isActive |-> ZBooleanDefaultTrue(data.isActive) ]

\* CreateProductSchema = productBaseSchema.extend({the four prices})
CreateProductSchema(data) ==
    ObjectResult(productBaseSchema(data, FALSE) @@
                 [ grosirPrice |-> createPriceSchema(data.grosirPrice),
                   semiGrosirPrice |-> createPriceSchema(data.semiGrosirPrice),
                   retailPrice |-> createPriceSchema(data.retailPrice),
                   modernPrice |-> createPriceSchema(data.modernPrice) ])

\* ProductFormSchema: the same fields with the prices of the form
ProductFormSchema(data) ==
    ObjectResult(productBaseSchema(data, TRUE) @@
                 [ grosirPrice |-> clientPriceSchema(data.grosirPrice),
                   semiGrosirPrice |-> clientPriceSchema(data.semiGrosirPrice),
                   retailPrice |-> clientPriceSchema(data.retailPrice),
                   modernPrice |-> clientPriceSchema(data.modernPrice) ])

\* a <= b on numbers
LessOrEqual(a, b) ==
    LET thousandths(val) == (IF val.neg THEN -1 ELSE 1) * (val.int * 1000 + val.frac)
    IN thousandths(a) <= thousandths(b)

\* validatePriceHierarchy(data)
validatePriceHierarchy(data) ==
    /\ LessOrEqual(data.grosirPrice, data.semiGrosirPrice)
    /\ LessOrEqual(data.semiGrosirPrice, data.retailPrice)
    /\ LessOrEqual(data.retailPrice, data.modernPrice)

\* ProductFormSchemaWithHierarchy = ProductFormSchema.refine(hierarchy, {path:
\* ["modernPrice"]}): the hierarchy is checked when all four prices are numbers
ProductFormSchemaWithHierarchy(data) ==
    LET r == ProductFormSchema(data) IN
    Refine(r,
           (\A k \in {"grosirPrice", "semiGrosirPrice", "retailPrice", "modernPrice"} :
               r.value[k].t = "number") => validatePriceHierarchy(r.value),
           <<"modernPrice">>)

\* The prices requests carry
ProductPriceInputs ==
    { Num(100, 0), Num(150, 0), Num(150, 4), Num(200, 0), Num(999999, 990),
      Num(0, 0), Minus(5, 0), Num(1000000, 0), Str("150"), Str("abc"), Undef }

\* The product of a request: its fields other than the prices
ProductFields(name, code, imageUrl) ==
    [ name |-> name, code |-> code, imageUrl |-> imageUrl, description |-> Undefined,
      category |-> "BISCUIT", isActive |-> Undef ]

\* A product request with all four prices ...
ProductRequest(fields, grosir, semiGrosir, retail, modern) ==
    fields @@ [ grosirPrice |-> grosir, semiGrosirPrice |-> semiGrosir,
                retailPrice |-> retail, modernPrice |-> modern ]

\* ... the wafer with every price list, and other products with one price list
ProductRequests ==
    { ProductRequest(ProductFields("Wafer", Undefined, Undefined), g, s, r, m) :
        g \in ProductPriceInputs, s \in ProductPriceInputs,
        r \in ProductPriceInputs, m \in ProductPriceInputs }
    \cup { ProductRequest(ProductFields(name, code, imageUrl),
                          Num(100, 0), Num(150, 0), Num(150, 0), Num(200, 0)) :
             name \in {"Wafer", "W", Undefined},
             code \in {Undefined, Null, "WF-01", "W1", "wf-01", ""},
             imageUrl \in {Undefined} \cup WellFormedUrls \cup {"wafer.png"} }

\* A product request is handed to a schema ...
ProductSchemas == {"CreateProductSchema", "ProductFormSchemaWithHierarchy"}

\* ... and the schema decides it
ValidateCreateProduct ==
    /\ validation.op = "productRequest"
    /\ validation.schema = "CreateProductSchema"
    /\ validation' = [ op |-> "productValidated",
                       schema |-> validation.schema,
                       req |-> validation.req,
                       result |-> CreateProductSchema(validation.req) ]
    /\ UNCHANGED <<authz, status, statusHistory, believed, readAt, basedOn, last>>
    /\ UNCHANGED tableVars

ValidateProductForm ==
    /\ validation.op = "productRequest"
    /\ validation.schema = "ProductFormSchemaWithHierarchy"
    /\ validation' = [ op |-> "productValidated",
                       schema |-> validation.schema,
                       req |-> validation.req,
                       result |-> ProductFormSchemaWithHierarchy(validation.req) ]
    /\ UNCHANGED <<authz, status, statusHistory, believed, readAt, basedOn, last>>
    /\ UNCHANGED tableVars

(***************************************************************************)
(* The role hierarchy                                                      *)
(***************************************************************************)

ROLE_HIERARCHY == [ADMIN |-> 4, MANAGER |-> 3, SALES |-> 2, BASIC |-> 1]

\* Faulty variant: the comparison is turned round.
isRoleHigherOrEqual_Reversed(userRole, compareRole) ==
    /\ userRole \in UserRole
    /\ compareRole \in UserRole
    /\ ROLE_HIERARCHY[userRole] <= ROLE_HIERARCHY[compareRole]

\* ROLE_HIERARCHY[userRole] >= ROLE_HIERARCHY[compareRole]; a role the table
\* does not list has no rank, and a comparison with no rank is false
isRoleHigherOrEqual(userRole, compareRole) ==
    /\ userRole \in UserRole
    /\ compareRole \in UserRole
    /\ ROLE_HIERARCHY[userRole] >= ROLE_HIERARCHY[compareRole]

RoleCompareCalls ==
    { [op |-> "call", fn |-> "isRoleHigherOrEqual", userRole |-> userRole,
       compareRole |-> compareRole] :
      userRole \in RoleInputs, compareRole \in RoleInputs }

IsRoleHigherOrEqual ==
    /\ call.op = "call"
    /\ call.fn = "isRoleHigherOrEqual"
    /\ call' = [ op |-> "isRoleHigherOrEqual",
                 userRole |-> call.userRole,
                 compareRole |-> call.compareRole,
                 result |-> isRoleHigherOrEqual(call.userRole, call.compareRole) ]
    /\ UNCHANGED <<authz, status, statusHistory, believed, readAt, basedOn, last, validation>>
    /\ UNCHANGED content
    /\ UNCHANGED <<today, orders, creating>>

(***************************************************************************)
(* ResourcePermissions: the checkers of the order and user permissions     *)
(***************************************************************************)

canApproveOrder(role, isActive) ==
    hasPermission(role, "order:approve", isActive, Undefined, Undefined)

canGeneratePO(role, isActive) ==
    hasPermission(role, "order:generate-po", isActive, Undefined, Undefined)

canManageRoles(role, isActive) ==
    hasPermission(role, "user:manage-roles", isActive, Undefined, Undefined)

(***************************************************************************)
(* hasAnyPermission and hasAllPermissions                                  *)
(***************************************************************************)

\* Faulty variant: only the first permission of the list is checked.
hasAnyPermission_First(userRole, permissions, isUserActive, userId, resourceOwnerId) ==
    IF permissions = <<>>
    THEN Return(FALSE)
    ELSE hasPermission(userRole, Head(permissions), isUserActive, userId, resourceOwnerId)

\* permissions.some(...): the permissions are checked in order up to the
\* first one granted; a check that throws ends the call
RECURSIVE hasAnyPermission(_, _, _, _, _)
hasAnyPermission(userRole, permissions, isUserActive, userId, resourceOwnerId) ==
    IF permissions = <<>>
    THEN Return(FALSE)
    ELSE LET r == hasPermission(userRole, Head(permissions), isUserActive, userId,
                                resourceOwnerId)
         IN IF r.throws THEN Throw
            ELSE IF r.value THEN Return(TRUE)
            ELSE hasAnyPermission(userRole, Tail(permissions), isUserActive, userId,
                                  resourceOwnerId)

\* permissions.every(...): the permissions are checked in order up to the
\* first one denied
RECURSIVE hasAllPermissions(_, _, _, _, _)
hasAllPermissions(userRole, permissions, isUserActive, userId, resourceOwnerId) ==
    IF permissions = <<>>
    THEN Return(TRUE)
    ELSE LET r == hasPermission(userRole, Head(permissions), isUserActive, userId,
                                resourceOwnerId)
         IN IF r.throws THEN Throw
            ELSE IF ~r.value THEN Return(FALSE)
            ELSE hasAllPermissions(userRole, Tail(permissions), isUserActive, userId,
                                   resourceOwnerId)

\* The permission lists of the calls: up to MaxPermissions of these permissions
MaxPermissions == 2
ListedPermissions == {"basic", "order:read", "order:read-own", "order:approve"}
PermissionLists == UNION {[1..n -> ListedPermissions] : n \in 0..MaxPermissions}

PermissionListCalls ==
    { [ op |-> "callList",
        fn |-> fn,
        userRole |-> userRole,
        permissions |-> permissions,
        isUserActive |-> isUserActive,
        userId |-> userId,
        resourceOwnerId |-> resourceOwnerId ] :
      fn \in {"hasAnyPermission", "hasAllPermissions"},
      userRole \in RoleInputs, permissions \in PermissionLists,
      isUserActive \in BOOLEAN, userId \in IdInputs, resourceOwnerId \in IdInputs }

CheckAnyPermission ==
    /\ authz.op = "callList"
    /\ authz.fn = "hasAnyPermission"
    /\ authz' = [ op |-> "hasAnyPermission",
                  userRole |-> authz.userRole,
                  permissions |-> authz.permissions,
                  isUserActive |-> authz.isUserActive,
                  userId |-> authz.userId,
                  resourceOwnerId |-> authz.resourceOwnerId,
                  result |-> hasAnyPermission(authz.userRole, authz.permissions,
                                              authz.isUserActive, authz.userId,
                                              authz.resourceOwnerId) ]
    /\ UNCHANGED <<status, statusHistory, believed, readAt, basedOn, last, validation>>
    /\ UNCHANGED tableVars

CheckAllPermissions ==
    /\ authz.op = "callList"
    /\ authz.fn = "hasAllPermissions"
    /\ authz' = [ op |-> "hasAllPermissions",
                  userRole |-> authz.userRole,
                  permissions |-> authz.permissions,
                  isUserActive |-> authz.isUserActive,
                  userId |-> authz.userId,
                  resourceOwnerId |-> authz.resourceOwnerId,
                  result |-> hasAllPermissions(authz.userRole, authz.permissions,
                                               authz.isUserActive, authz.userId,
                                               authz.resourceOwnerId) ]
    /\ UNCHANGED <<status, statusHistory, believed, readAt, basedOn, last, validation>>
    /\ UNCHANGED tableVars

(***************************************************************************)
(* The amounts of the records against their digit ceilings                 *)
(***************************************************************************)

\* The amounts a record can carry in a field with a ceiling
CeilingInputs ==
    { Num(0, 0), Num(100, 500), Num(100, 5), Num(999999, 990), Num(1000000, 0),
      Num(999999999, 990), Num(1000000000, 0), Minus(5, 0),
      Sci(1, 0, 21), Sci(1, 500, 21), Sci(1, 0, -7),
      Str("99.5"), Str("-5"), Str("1e21"), Str("abc") }

\* An item of 100 with the unit price and the custom price given ...
ItemWithPrices(unitPrice, customPrice) ==
    [ OrderItemRow(CHOOSE id \in ProductIds : TRUE, unitPrice, Num(1, 0), NoDiscount,
                   [ itemDiscountAmount |-> Undef,
                     subtotal |-> Num(100, 0),
                     finalPrice |-> Num(100, 0) ])
      EXCEPT !.customPrice = customPrice ]

\* ... and the records whose amounts are checked: items and orders
AmountRecords ==
    { [op |-> "amounts", kind |-> "item", row |-> ItemWithPrices(unitPrice, customPrice)] :
        unitPrice \in CeilingInputs, customPrice \in CeilingInputs \cup {Undef, NullV} }
    \cup { [op |-> "amounts", kind |-> "order", row |-> OrderRow(subtotal, Undef, total)] :
             subtotal \in CeilingInputs, total \in CeilingInputs }

\* OrderItemSchema decides the item ...
ValidateItemAmounts ==
    /\ validation.op = "amounts"
    /\ validation.kind = "item"
    /\ validation' = [ op |-> "amountsValidated",
                       kind |-> "item",
                       row |-> validation.row,
                       result |-> OrderItemSchema(validation.row) ]
    /\ UNCHANGED <<authz, status, statusHistory, believed, readAt, basedOn, last>>
    /\ UNCHANGED tableVars

\* ... and OrderSchema the order
ValidateOrderAmounts ==
    /\ validation.op = "amounts"
    /\ validation.kind = "order"
    /\ validation' = [ op |-> "amountsValidated",
                       kind |-> "order",
                       row |-> validation.row,
                       result |-> OrderSchema(validation.row) ]
    /\ UNCHANGED <<authz, status, statusHistory, believed, readAt, basedOn, last>>
    /\ UNCHANGED tableVars

(***************************************************************************)
(* The unit price of an item                                               *)
(***************************************************************************)

\* Faulty variant: RETAIL has no case of its own and falls to the default.
getPriceByType_NoRetailCase(product, priceType) ==
    CASE priceType = "GROSIR" -> product.grosirPrice
      [] priceType = "SEMI_GROSIR" -> product.semiGrosirPrice
      [] priceType = "MODERN" -> product.modernPrice
      [] OTHER -> product.modernPrice

\* PriceUtils.getPriceByType: the switch over the four tiers and its default
getPriceByType(product, priceType) ==
    CASE priceType = "GROSIR" -> product.grosirPrice
      [] priceType = "SEMI_GROSIR" -> product.semiGrosirPrice
      [] priceType = "RETAIL" -> product.retailPrice
      [] priceType = "MODERN" -> product.modernPrice
      [] OTHER -> product.modernPrice

\* The unit price of an item: its custom price when the price type is CUSTOM,
\* the price of its tier otherwise
ResolveUnitPrice(product, priceType, customPrice) ==
    IF priceType = "CUSTOM" THEN customPrice ELSE getPriceByType(product, priceType)

\* The price lists of the products and the custom prices of the items
PriceLists ==
    { [ grosirPrice |-> Num(100, 0), semiGrosirPrice |-> Num(150, 0),
        retailPrice |-> Num(180, 0), modernPrice |-> Num(200, 0) ],
      [ grosirPrice |-> Num(99, 500), semiGrosirPrice |-> Num(99, 500),
        retailPrice |-> Num(120, 0), modernPrice |-> Num(120, 0) ] }

CustomPriceInputs == {Undef, NullV, Num(120, 0), Num(175, 0)}

UnitPriceCalls ==
    { [ op |-> "call", fn |-> "resolveUnitPrice", product |-> product,
        priceType |-> priceType, customPrice |-> customPrice ] :
      product \in PriceLists, priceType \in PriceTypeEnum,
      customPrice \in CustomPriceInputs }

ResolvePrice ==
    /\ call.op = "call"
    /\ call.fn = "resolveUnitPrice"
    /\ call' = [ op |-> "resolveUnitPrice",
                 product |-> call.product,
                 priceType |-> call.priceType,
                 customPrice |-> call.customPrice,
                 result |-> ResolveUnitPrice(call.product, call.priceType,
                                             call.customPrice) ]
    /\ UNCHANGED <<authz, status, statusHistory, believed, readAt, basedOn, last, validation>>
    /\ UNCHANGED content
    /\ UNCHANGED <<today, orders, creating>>

(***************************************************************************)
(* Users: the schemas of a user update                                     *)
(***************************************************************************)

\* userBaseSchema: role is UserRoleEnum.default("BASIC"), isActive is
\* z.boolean().default(true)
userBaseSchema(data) ==
    [ role |-> ZEnumDefault(UserRole, "BASIC", data.role),
      isActive |-> ZBooleanDefaultTrue(data.isActive) ]

\* enforceInactiveBasicRoleRule(schema): the refinement on path role
InactiveIsBasic(data) == ~(data.isActive = Bool(FALSE) /\ data.role # "BASIC")

enforceInactiveBasicRoleRule(r) == Refine(r, InactiveIsBasic(r.value), <<"role">>)

\* UpdateUserSchema: role and isActive are optional, and nothing relates them
UpdateUserSchema(data) ==
    ObjectResult(
      [ id |-> ZUuid(data.id),
        name |-> ZStringNullableOptional(data.name),
        role |-> IF data.role = Undefined THEN Valid(Undefined)
                 ELSE userBaseSchema(data).role,
        isActive |-> ZBooleanOptional(data.isActive) ])

UpdateUserRoleFormSchema(data) ==
    enforceInactiveBasicRoleRule(
      ObjectResult(
        [ id |-> ZUuid(data.id),
          role |-> userBaseSchema(data).role,
          isActive |-> userBaseSchema(data).isActive ]))

UserManagementFormSchema(data) ==
    enforceInactiveBasicRoleRule(
      ObjectResult(
        [ id |-> ZUuid(data.id),
          role |-> userBaseSchema(data).role,
          isActive |-> userBaseSchema(data).isActive,
          name |-> ZStringNullableOptional(data.name) ]))

\* The user updates requested
UserRequests ==
    [ id : UserIds \cup {"7"},
      name : {Undefined, Null, "rusak"},
      role : UserRole \cup {Undefined, "GUEST"},
      isActive : {Bool(TRUE), Bool(FALSE), Undef, Str("false")} ]

UserSchemas == {"UpdateUserSchema", "UpdateUserRoleFormSchema", "UserManagementFormSchema"}

UserValidated(schema, req, result) ==
    [op |-> "userValidated", schema |-> schema, req |-> req, result |-> result]

\* A user update is handed to a schema, and the schema decides it
ValidateUpdateUser ==
    /\ validation.op = "userRequest"
    /\ validation.schema = "UpdateUserSchema"
    /\ validation' = UserValidated(validation.schema, validation.req,
                                   UpdateUserSchema(validation.req))
    /\ UNCHANGED <<authz, status, statusHistory, believed, readAt, basedOn, last>>
    /\ UNCHANGED tableVars

ValidateUpdateUserRoleForm ==
    /\ validation.op = "userRequest"
    /\ validation.schema = "UpdateUserRoleFormSchema"
    /\ validation' = UserValidated(validation.schema, validation.req,
                                   UpdateUserRoleFormSchema(validation.req))
    /\ UNCHANGED <<authz, status, statusHistory, believed, readAt, basedOn, last>>
    /\ UNCHANGED tableVars

ValidateUserManagementForm ==
    /\ validation.op = "userRequest"
    /\ validation.schema = "UserManagementFormSchema"
    /\ validation' = UserValidated(validation.schema, validation.req,
                                   UserManagementFormSchema(validation.req))
    /\ UNCHANGED <<authz, status, statusHistory, believed, readAt, basedOn, last>>
    /\ UNCHANGED tableVars

(***************************************************************************)
(* Specifications                                                          *)
(***************************************************************************)

NoValidation == [op |-> "none", success |-> FALSE]

Init ==
    /\ authz = NoCheck
    /\ status = "DRAFT"
    /\ statusHistory = <<>>
    /\ believed = [c \in Clients |-> NoRead]
    /\ readAt = [c \in Clients |-> 0]
    /\ basedOn = <<>>
    /\ last = NoRequest
    /\ validation = NoValidation
    /\ InitTable

\* One order, read and transitioned by the clients
Next ==
    \/ \E c \in Clients : ReadOrder(c)
    \/ \E c \in Clients : SubmitStatusChange(c)

Spec == Init /\ [][Next]_vars

\* Permission checks on enumerated arguments
InitPermissions ==
    /\ authz \in PermissionCalls \cup PermissionListCalls
    /\ status = "DRAFT"
    /\ statusHistory = <<>>
    /\ believed = [c \in Clients |-> NoRead]
    /\ readAt = [c \in Clients |-> 0]
    /\ basedOn = <<>>
    /\ last = NoRequest
    /\ validation = NoValidation
    /\ InitTable

NextPermissions ==
    \/ CheckPermission
    \/ CheckAnyPermission
    \/ CheckAllPermissions

SpecPermissions == InitPermissions /\ [][NextPermissions]_vars

\* Create and Update requests drawn from the request pools, then validated
InitValidator ==
    /\ authz = NoCheck
    /\ status = "DRAFT"
    /\ statusHistory = <<>>
    /\ believed = [c \in Clients |-> NoRead]
    /\ readAt = [c \in Clients |-> 0]
    /\ basedOn = <<>>
    /\ last = NoRequest
    /\ validation \in {Request("create", req) : req \in CreateRequests}
                      \cup {Request("update", req) : req \in UpdateRequests}
                      \cup {Request("create", req) : req \in PricedCreateRequests}
                      \cup {Request("update", req) : req \in PricedUpdateRequests}
                      \cup {[op |-> "record", req |-> req] : req \in OrderRecords}
                      \cup PricingInputs
    /\ InitTable

NextValidator ==
    \/ ValidateCreateOrder
    \/ ValidateUpdateOrder
    \/ ValidateOrderRecord
    \/ PriceItem

SpecValidator == InitValidator /\ [][NextValidator]_vars

\* Calls of the helpers on enumerated arguments
InitHelpers ==
    /\ authz = NoCheck
    /\ status = "DRAFT"
    /\ statusHistory = <<>>
    /\ believed = [c \in Clients |-> NoRead]
    /\ readAt = [c \in Clients |-> 0]
    /\ basedOn = <<>>
    /\ last = NoRequest
    /\ validation = NoValidation
    /\ call \in OrderNumberCalls \cup CanEditOrderCalls \cup IsVisitRequiredCalls
                \cup RoleCompareCalls \cup UnitPriceCalls
    /\ today = Days[1]
    /\ orders = <<>>
    /\ creating = [c \in Clients |-> Idle]
    /\ content = [items |-> <<>>, orderDiscountType |-> Undefined, orderDiscountValue |-> Undef]

NextHelpers ==
    \/ GenerateOrderNumber
    \/ CanEditOrder
    \/ IsVisitRequiredForOrder
    \/ IsRoleHigherOrEqual
    \/ ResolvePrice

SpecHelpers == InitHelpers /\ [][NextHelpers]_vars

\* The clients create orders over the days
InitOrderNumbers ==
    /\ authz = NoCheck
    /\ status = "DRAFT"
    /\ statusHistory = <<>>
    /\ believed = [c \in Clients |-> NoRead]
    /\ readAt = [c \in Clients |-> 0]
    /\ basedOn = <<>>
    /\ last = NoRequest
    /\ validation = NoValidation
    /\ InitTable

NextOrderNumbers ==
    \/ \E c \in Clients : GenerateNumber(c)
    \/ \E c \in Clients : InsertOrder(c)
    \/ NextDay

SpecOrderNumbers == InitOrderNumbers /\ [][NextOrderNumbers]_vars

\* An order of OrderOwner, at any point of its life, and the Updates sent for it
InitEditing ==
    /\ authz = NoCheck
    /\ status \in OrderStatus
    /\ statusHistory = <<>>
    /\ believed = [c \in Clients |-> NoRead]
    /\ readAt = [c \in Clients |-> 0]
    /\ basedOn = <<>>
    /\ last = NoRequest
    /\ validation = NoValidation
    /\ call = NoCall
    /\ today = Days[1]
    /\ orders = <<>>
    /\ creating = [c \in Clients |-> Idle]
    /\ content = InitialContent

NextEditing == \E c \in Clients : SubmitUpdate(c)

SpecEditing == InitEditing /\ [][NextEditing]_vars

\* The Creates the users send
InitCreation ==
    /\ authz = NoCheck
    /\ status = "DRAFT"
    /\ statusHistory = <<>>
    /\ believed = [c \in Clients |-> NoRead]
    /\ readAt = [c \in Clients |-> 0]
    /\ basedOn = <<>>
    /\ last = NoRequest
    /\ validation = NoValidation
    /\ InitTable

NextCreation == \E c \in Clients : SubmitCreate(c)

SpecCreation == InitCreation /\ [][NextCreation]_vars

\* The draft of OrderOwner, who has read it: status changes and Creates of the
\* owner, Updates of everyone
InitRequests ==
    /\ authz = NoCheck
    /\ status = "DRAFT"
    /\ statusHistory = <<>>
    /\ believed = [c \in Clients |-> IF c = OrderOwner THEN status ELSE NoRead]
    /\ readAt = [c \in Clients |-> 0]
    /\ basedOn = <<>>
    /\ last = NoRequest
    /\ validation = NoValidation
    /\ call = NoCall
    /\ today = Days[1]
    /\ orders = <<>>
    /\ creating = [c \in Clients |-> Idle]
    /\ content = InitialContent

NextRequests ==
    \/ SubmitStatusChange(OrderOwner)
    \/ \E c \in Clients : SubmitUpdate(c)
    \/ SubmitCreate(OrderOwner)

SpecRequests == InitRequests /\ [][NextRequests]_vars

\* Product requests drawn from the request pool, then validated
InitProducts ==
    /\ authz = NoCheck
    /\ status = "DRAFT"
    /\ statusHistory = <<>>
    /\ believed = [c \in Clients |-> NoRead]
    /\ readAt = [c \in Clients |-> 0]
    /\ basedOn = <<>>
    /\ last = NoRequest
    /\ validation \in [ op : {"productRequest"}, schema : ProductSchemas,
                        req : ProductRequests ]
    /\ InitTable

NextProducts ==
    \/ ValidateCreateProduct
    \/ ValidateProductForm

SpecProducts == InitProducts /\ [][NextProducts]_vars

\* Items and orders drawn with amounts at and beyond their ceilings, then
\* validated
InitAmounts ==
    /\ authz = NoCheck
    /\ status = "DRAFT"
    /\ statusHistory = <<>>
    /\ believed = [c \in Clients |-> NoRead]
    /\ readAt = [c \in Clients |-> 0]
    /\ basedOn = <<>>
    /\ last = NoRequest
    /\ validation \in AmountRecords
    /\ InitTable

NextAmounts ==
    \/ ValidateItemAmounts
    \/ ValidateOrderAmounts

SpecAmounts == InitAmounts /\ [][NextAmounts]_vars

\* User updates drawn from the request pool, then validated
InitUsers ==
    /\ authz = NoCheck
    /\ status = "DRAFT"
    /\ statusHistory = <<>>
    /\ believed = [c \in Clients |-> NoRead]
    /\ readAt = [c \in Clients |-> 0]
    /\ basedOn = <<>>
    /\ last = NoRequest
    /\ validation \in [op : {"userRequest"}, schema : UserSchemas, req : UserRequests]
    /\ InitTable

NextUsers ==
    \/ ValidateUpdateUser
    \/ ValidateUpdateUserRoleForm
    \/ ValidateUserManagementForm

SpecUsers == InitUsers /\ [][NextUsers]_vars

(***************************************************************************)
(* Properties of the permission evaluator (SpecPermissions)                *)
(***************************************************************************)

Checked == authz.op = "hasPermission"

\* C1: for each of the four roles and every permission, a check for an
\* inactive user returns true exactly when the permission is the baseline
\* permission `basic`, which every role's permission set contains.
C1_InactiveOnlyBaseline ==
    /\ \A r \in UserRole : "basic" \in ROLE_PERMISSIONS[r]
    /\ (Checked /\ authz.userRole \in UserRole /\ ~authz.isUserActive)
          => authz.result = Return(authz.permission = "basic")

C1_Witness ==
    /\ Checked
    /\ authz.userRole = "BASIC"
    /\ ~authz.isUserActive
    /\ authz.permission = "basic"
    /\ authz.result = Return(TRUE)

\* C2: an ownership-scoped permission (order:read-own, visit:read-own) is
\* granted only when the role holds it and userId and resourceOwnerId are both
\* supplied and equal; a check with either id absent is denied.
C2_OwnershipNeedsBothIds ==
    (Checked /\ authz.permission \in OwnershipScoped /\ authz.result = Return(TRUE))
        => /\ authz.userRole \in UserRole
           /\ authz.permission \in ROLE_PERMISSIONS[authz.userRole]
           /\ authz.userId # Undefined
           /\ authz.resourceOwnerId # Undefined
           /\ authz.userId = authz.resourceOwnerId

\* C3: for an active user and a permission that is not ownership-scoped the
\* check returns true exactly when the role's permission set holds the
\* permission, and for a role outside the four known roles it returns false
\* and does not throw.
C3_ActiveMembership ==
    (Checked /\ authz.isUserActive /\ authz.permission \notin OwnershipScoped)
        => IF authz.userRole \in UserRole
           THEN authz.result = Return(authz.permission \in ROLE_PERMISSIONS[authz.userRole])
           ELSE authz.result = Return(FALSE)

(***************************************************************************)
(* Properties of the order status machine (Spec)                           *)
(***************************************************************************)

Processed == last.op = "statusChange"

C4_Legal ==
    { <<"DRAFT", "DISETUJUI">>, <<"DRAFT", "TIDAK_TERKIRIM">>,
      <<"DISETUJUI", "TERKIRIM">>, <<"DISETUJUI", "TIDAK_TERKIRIM">>,
      <<"TIDAK_TERKIRIM", "DISETUJUI">> }

\* C4: validateStatusTransition holds of exactly the five pairs DRAFT->DISETUJUI,
\* DRAFT->TIDAK_TERKIRIM, DISETUJUI->TERKIRIM, DISETUJUI->TIDAK_TERKIRIM and
\* TIDAK_TERKIRIM->DISETUJUI, and UpdateOrderStatusSchema accepts a request
\* only when its (currentStatus, newStatus) is one of them.
C4_TransitionTable ==
    /\ \A from \in OrderStatus, to \in OrderStatus :
          validateStatusTransition(from, to) <=> <<from, to>> \in C4_Legal
    /\ (Processed /\ last.accepted)
          => <<last.data.currentStatus, last.data.newStatus>> \in C4_Legal

C4_Witness ==
    /\ Processed
    /\ last.accepted
    /\ last.data.currentStatus = "TIDAK_TERKIRIM"
    /\ last.data.newStatus = "DISETUJUI"

\* C5: TERKIRIM is terminal: once the stored status is TERKIRIM no accepted
\* status-change request changes it.
C5_TerkirimTerminal == [][status = "TERKIRIM" => status' = "TERKIRIM"]_vars

\* C6: a request whose currentStatus differs from the stored status of the
\* order is rejected, also when its (currentStatus, newStatus) is a legal pair.
C6_StaleRejected ==
    (Processed /\ last.data.currentStatus # last.statusBefore) => ~last.accepted

\* C7: of the requests built from the same read of the order at most one is
\* accepted: no two history entries come from requests that read the order at
\* the same point of its history.
C7_OneWinnerPerRead ==
    \A i \in DOMAIN basedOn, j \in DOMAIN basedOn : basedOn[i] = basedOn[j] => i = j

\* The newest history entry is the stored status
C8_LastEntry ==
    statusHistory # <<>> => statusHistory[Len(statusHistory)].status = status

\* An accepted request appends one entry built from it and keeps the earlier
\* ones; any other step leaves history and status alone
C8_Step ==
    IF last' # last /\ last'.accepted
    THEN /\ Len(statusHistory') = Len(statusHistory) + 1
         /\ SubSeq(statusHistory', 1, Len(statusHistory)) = statusHistory
         /\ LET entry == statusHistory'[Len(statusHistory')]
            IN /\ DOMAIN entry = {"status", "timestamp", "userId", "notes"}
               /\ entry.status = last'.data.newStatus
               /\ entry.userId = last'.data.userId
         /\ status' = last'.data.newStatus
    ELSE statusHistory' = statusHistory /\ status' = status

\* C8: every accepted transition appends exactly one entry {status, timestamp,
\* userId, notes} to the status history and changes no earlier entry, so the
\* last entry's status is the order's current status.
C8_HistoryAppendOnly == []C8_LastEntry /\ [][C8_Step]_vars

C8_Witness ==
    /\ Len(statusHistory) >= 2
    /\ Processed
    /\ last.accepted

\* C9: a request into TIDAK_TERKIRIM is accepted only with a rejectionReason
\* that is present and not blank.
C9_RejectionReasonRequired ==
    (Processed /\ last.accepted /\ last.data.newStatus = "TIDAK_TERKIRIM")
        => /\ last.data.rejectionReason \notin {Undefined, Null}
           /\ Trim(last.data.rejectionReason) # ""

(***************************************************************************)
(* Properties of the order validator (SpecValidator)                       *)
(***************************************************************************)

Validated == validation.op = "validated"

\* A request value, number or numeric string, above 100
Exceeds100(v) ==
    LET val == IF v.t = "string" THEN parseFloat(v.s) ELSE v
    IN val.t = "number" /\ ~Leq(val, 100)

ExcessPercentageRequested(req) ==
    \/ req.orderDiscountType = "PERCENTAGE" /\ Exceeds100(req.orderDiscountValue)
    \/ \E k \in 1..Len(req.items) :
          /\ req.items[k].itemDiscountType = "PERCENTAGE"
          /\ Exceeds100(req.items[k].itemDiscountValue)

ExcessPercentageCarried(data) ==
    \/ /\ data.orderDiscountType = "PERCENTAGE"
       /\ data.orderDiscountValue # Undef
       /\ ~Leq(data.orderDiscountValue, 100)
    \/ \E k \in 1..Len(data.items) :
          /\ data.items[k].itemDiscountType = "PERCENTAGE"
          /\ ~Leq(data.items[k].itemDiscountValue, 100)

\* C10: CreateOrderSchema and UpdateOrderSchema reject every request in which
\* an item's or the order's PERCENTAGE discount value exceeds 100, so no
\* accepted order carries a percentage discount above 100.
C10_PercentageAtMost100 ==
    Validated =>
        /\ ExcessPercentageRequested(validation.req) => ~Success(validation.result)
        /\ Success(validation.result) => ~ExcessPercentageCarried(validation.result.value)

\* An update rejected for nothing but the percentage of an item marked deleted
C10_Witness ==
    /\ Validated
    /\ validation.mode = "update"
    /\ Len(validation.req.items) = 2
    /\ validation.req.items[2].isDeleted = Bool(TRUE)
    /\ validation.req.items[2].itemDiscountType = "PERCENTAGE"
    /\ Exceeds100(validation.req.items[2].itemDiscountValue)
    /\ validation.result.issues = {<<"items", "1", "itemDiscountValue">>}

\* Two items of the list, or two items of it not marked deleted, share a product
RepeatedProduct(items) ==
    \E i, j \in 1..Len(items) : i < j /\ items[i].productId = items[j].productId

ActiveRepeatedProduct(items) ==
    \E i, j \in 1..Len(items) :
        /\ i < j
        /\ items[i].isDeleted # Bool(TRUE)
        /\ items[j].isDeleted # Bool(TRUE)
        /\ items[i].productId = items[j].productId

NoCustomPrice(item) ==
    \/ item.customPrice \in {Undef, NullV}
    \/ item.customPrice = Num(0, 0)

\* The reason of a request item is missing or blank
NoCustomPriceReason(item) ==
    \/ item.customPriceReason \in {Undefined, Null}
    \/ Trim(item.customPriceReason) = ""

ItemPath(k, field) == <<"items", ToString(k - 1), field>>

\* C12: an item of priceType CUSTOM is accepted in a Create or Update request
\* only with customPrice > 0 and a customPriceReason that is not empty after
\* trimming: a custom price that is absent, null or zero gives an issue on the
\* item's path customPrice, a missing or blank reason one on customPriceReason;
\* an item of another priceType passes with neither.
C12_CustomPriceJustified ==
    Validated =>
        LET req == validation.req
            result == validation.result
        IN /\ \A k \in 1..Len(req.items) :
                IF req.items[k].priceType = "CUSTOM"
                THEN /\ NoCustomPrice(req.items[k]) =>
                            /\ ~Success(result)
                            /\ ItemPath(k, "customPrice") \in result.issues
                     /\ NoCustomPriceReason(req.items[k]) =>
                            /\ ~Success(result)
                            /\ ItemPath(k, "customPriceReason") \in result.issues
                ELSE /\ NoCustomPrice(req.items[k]) =>
                            ItemPath(k, "customPrice") \notin result.issues
                     /\ ItemPath(k, "customPriceReason") \notin result.issues
           /\ Success(result) =>
                \A k \in 1..Len(result.value.items) :
                    LET item == result.value.items[k]
                    IN item.priceType = "CUSTOM" =>
                          /\ item.customPrice \notin {Undef, NullV}
                          /\ IsPositive(item.customPrice)
                          /\ item.customPriceReason \notin {Undefined, Null}
                          /\ Trim(item.customPriceReason) # ""

\* A CUSTOM item with a price and a reason is accepted, ...
C12_Witness ==
    /\ Validated
    /\ validation.mode = "create"
    /\ Len(validation.req.items) = 2
    /\ validation.req.items[2].priceType = "CUSTOM"
    /\ validation.req.items[2].customPrice = Str("99.5")
    /\ validation.req.items[2].customPriceReason = " rusak "
    /\ Success(validation.result)
    /\ validation.result.value.items[2].customPriceReason = "rusak"

\* ... one with a price of zero and a blank reason is rejected on both paths
C12_WitnessRejected ==
    /\ Validated
    /\ validation.mode = "update"
    /\ Len(validation.req.items) = 1
    /\ validation.req.items[1].priceType = "CUSTOM"
    /\ validation.req.items[1].customPrice = Num(0, 0)
    /\ validation.req.items[1].customPriceReason = Blank
    /\ validation.result.issues = {ItemPath(1, "customPrice"), ItemPath(1, "customPriceReason")}

(***************************************************************************)
(* Properties of the order numbers (SpecHelpers, SpecOrderNumbers)         *)
(***************************************************************************)

\* The characters of `chars` are digits, and the number they spell
AllDigits(chars) ==
    \A k \in 1..Len(chars) : \E d \in 1..10 : DigitChars[d] = chars[k]

RECURSIVE NumberOf(_)
NumberOf(chars) ==
    IF chars = <<>> THEN 0
    ELSE 10 * NumberOf(SubSeq(chars, 1, Len(chars) - 1))
         + (CHOOSE d \in 0..9 : DigitChars[d + 1] = chars[Len(chars)])

\* C13: for every sequence number generateOrderNumber returns PO-YYYYMMDD-NNN:
\* "PO-", the eight digits of the date, "-", and the sequence number as exactly
\* three zero-padded digits.
C13_OrderNumberFormat ==
    call.op = "generateOrderNumber" =>
        LET result == call.result
        IN /\ Len(result) = 15
           /\ SubSeq(result, 1, 3) = <<"P", "O", "-">>
           /\ AllDigits(SubSeq(result, 4, 11))
           /\ NumberOf(SubSeq(result, 4, 7)) = call.now.year
           /\ NumberOf(SubSeq(result, 8, 9)) = call.now.month + 1
           /\ NumberOf(SubSeq(result, 10, 11)) = call.now.date
           /\ result[12] = "-"
           /\ AllDigits(SubSeq(result, 13, 15))
           /\ NumberOf(SubSeq(result, 13, 15)) = call.sequence

\* The stored orders have distinct numbers
DistinctOrderNumbers ==
    \A i, j \in 1..Len(orders) :
        orders[i].orderNumber = orders[j].orderNumber => i = j

\* C14: two clients creating orders on the same date never end up with the same
\* order number: however their generation and insert steps interleave, the
\* stored orders have distinct orderNumber values.
C14_DistinctOrderNumbers == DistinctOrderNumbers

\* Two creations generated the same number; one is stored, the insert of the
\* other was refused
C14_Witness ==
    \E c \in Clients, k \in 1..Len(orders) :
        /\ creating[c].pc = "conflict"
        /\ orders[k].orderNumber = creating[c].orderNumber
        /\ orders[k].salesId # c
        /\ orders[k].orderDate = today

(***************************************************************************)
(* Properties of the business rules (SpecHelpers, SpecHandlers)            *)
(***************************************************************************)

\* C15: canEditOrder(role, orderStatus, userId, orderOwnerId) returns true
\* exactly when role is ADMIN, or role is SALES and orderStatus is DRAFT and
\* userId equals orderOwnerId; MANAGER and BASIC are refused always.
C15_CanEditOrder ==
    call.op = "canEditOrder" =>
        /\ call.result <=>
              \/ call.role = "ADMIN"
              \/ /\ call.role = "SALES"
                 /\ call.orderStatus = "DRAFT"
                 /\ call.userId = call.orderOwnerId
        /\ call.role \in {"MANAGER", "BASIC"} => ~call.result

\* A sales user is refused the draft of a colleague
C15_Witness ==
    /\ call.op = "canEditOrder"
    /\ call.role = "SALES"
    /\ call.orderStatus = "DRAFT"
    /\ call.userId = "u1"
    /\ call.orderOwnerId = "u2"
    /\ ~call.result

C17_VisitRequiredForSales ==
    /\ \A role \in UserRole : isVisitRequiredForOrder(role) <=> role = "SALES"
    /\ last.op = "create" =>
          /\ (last.accepted /\ last.role = "SALES")
                => last.req.visitId \notin {Undefined, Null}
          /\ (last.role = "ADMIN" /\ Success(CreateOrderSchema(last.req)))
                => last.accepted

\* An ADMIN's order without a visit is stored
C17_Witness ==
    /\ last.op = "create"
    /\ last.role = "ADMIN"
    /\ last.req.visitId = Undefined
    /\ last.accepted
    /\ orders # <<>>
    /\ orders[Len(orders)].salesId = last.userId

(***************************************************************************)
(* Properties of the amounts (SpecValidator)                               *)
(***************************************************************************)

\* An amount in thousandths
Thousandths(val) == (IF val.neg THEN -1 ELSE 1) * (val.int * 1000 + val.frac)

RECURSIVE SumOfSubtotals(_)
SumOfSubtotals(items) ==
    IF items = <<>> THEN 0
    ELSE Thousandths(items[1].subtotal) + SumOfSubtotals(Tail(items))

RecordAccepted ==
    /\ validation.op = "recordValidated"
    /\ Success(validation.result.order)
    /\ \A k \in 1..Len(validation.result.items) : Success(validation.result.items[k])

\* C18: every order record the validator accepts satisfies
\* (sum of the subtotals of its items) - orderDiscountAmount = total; a record
\* that does not is rejected.
C18_TotalIsSubtotalLessDiscount ==
    RecordAccepted =>
        LET order == validation.result.order.value
            items == [k \in 1..Len(validation.result.items) |->
                         validation.result.items[k].value]
        IN SumOfSubtotals(items) - Thousandths(order.orderDiscountAmount)
              = Thousandths(order.total)

C20_AtLeastOneActiveItem ==
    Validated =>
        LET req == validation.req
            result == validation.result
        IN /\ req.items = <<>> => ~Success(result)
           /\ (/\ validation.mode = "update"
               /\ \A k \in 1..Len(req.items) : req.items[k].isDeleted = Bool(TRUE))
                 => ~Success(result)
           /\ Success(result) =>
                 IF validation.mode = "create"
                 THEN result.value.items # <<>>
                 ELSE NonDeleted(result.value.items) # <<>>

(***************************************************************************)
(* Properties of the requests together (SpecRequests)                      *)
(***************************************************************************)

\* C21: a rejected Create, Update or status-change request leaves the stored
\* state as it was: status, status history, items and discounts of the order
\* and the order table after the rejection are what they were before.
C21_RejectionChangesNothing ==
    [][(last' # last /\ ~last'.accepted) =>
          /\ status' = status
          /\ statusHistory' = statusHistory
          /\ content' = content
          /\ orders' = orders]_vars

\* An Update is rejected on an order that has been edited and has left DRAFT,
\* with an order in the table
C21_Witness ==
    /\ last.op = "update"
    /\ ~last.accepted
    /\ Success(UpdateOrderSchema(last.req))
    /\ status # "DRAFT"
    /\ statusHistory # <<>>
    /\ content # InitialContent
    /\ orders # <<>>

(***************************************************************************)
(* Properties of the product schemas (SpecProducts)                        *)
(***************************************************************************)

ProductValidated(schema) ==
    validation.op = "productValidated" /\ validation.schema = schema

\* C22: every price list accepted at product creation is ordered, grosirPrice
\* <= semiGrosirPrice <= retailPrice <= modernPrice: a creation request whose
\* prices are not in this order is rejected.
C22_PriceHierarchyAtCreation ==
    (ProductValidated("CreateProductSchema") /\ Success(validation.result))
        => validatePriceHierarchy(validation.result.value)

\* What the form schema with the hierarchy refinement does guarantee
C22_FormPriceHierarchy ==
    (ProductValidated("ProductFormSchemaWithHierarchy") /\ Success(validation.result))
        => validatePriceHierarchy(validation.result.value)

(***************************************************************************)
(* Properties of the role table (SpecHelpers, SpecPermissions)             *)
(***************************************************************************)

RolesCompared ==
    /\ call.op = "isRoleHigherOrEqual"
    /\ call.userRole \in UserRole
    /\ call.compareRole \in UserRole

\* C23, as stated: the role table is monotonic with the hierarchy ADMIN(4) >
\* MANAGER(3) > SALES(2) > BASIC(1): whenever isRoleHigherOrEqual(r1, r2),
\* every permission of ROLE_PERMISSIONS[r2] is in ROLE_PERMISSIONS[r1].
C23_TableMonotonic ==
    (RolesCompared /\ call.result)
        => ROLE_PERMISSIONS[call.compareRole] \subseteq ROLE_PERMISSIONS[call.userRole]

\* C23, amended: the hierarchy is the total order ADMIN(4) > MANAGER(3) >
\* SALES(2) > BASIC(1), and whenever isRoleHigherOrEqual(r1, r2) the set of r1
\* contains the set of r2 exactly when r2 is not SALES or r1 is SALES itself:
\* the set of SALES is contained neither in MANAGER's nor in ADMIN's.
C23_TableMonotonicButSales ==
    RolesCompared =>
        /\ call.result <=>
              ROLE_HIERARCHY[call.userRole] >= ROLE_HIERARCHY[call.compareRole]
        /\ call.result =>
              ( ROLE_PERMISSIONS[call.compareRole] \subseteq ROLE_PERMISSIONS[call.userRole]
                <=> (call.compareRole # "SALES" \/ call.userRole = "SALES") )

\* ADMIN is compared with MANAGER, whose permissions it holds
C23_Witness ==
    /\ RolesCompared
    /\ call.userRole = "ADMIN"
    /\ call.compareRole = "MANAGER"
    /\ call.result
    /\ ROLE_PERMISSIONS["MANAGER"] \subseteq ROLE_PERMISSIONS["ADMIN"]

\* The permissions that create, update, delete, approve, reject, generate a
\* purchase order, manage prices or manage roles
WritePermissions ==
    { "store:create", "store:update", "store:delete",
      "product:create", "product:update", "product:delete", "product:manage-prices",
      "order:create", "order:update", "order:delete",
      "order:approve", "order:reject", "order:generate-po",
      "visit:create", "visit:update", "visit:delete", "visit:delete-all",
      "user:update", "user:manage-roles", "user:delete" }

AdminOnlyPermissions == {"order:approve", "order:reject", "order:generate-po"}

\* C24: MANAGER has read-only access: whatever the activity flag and the ids,
\* a check of MANAGER for a create, update, delete, approve, reject,
\* generate-po, manage-prices or manage-roles permission is denied; and
\* order:approve, order:reject and order:generate-po are granted to no role
\* but ADMIN, in the table and by the checkers canApproveOrder, canGeneratePO.
C24_ManagerReadOnly ==
    /\ \A r \in UserRole \ {"ADMIN"} : ROLE_PERMISSIONS[r] \cap AdminOnlyPermissions = {}
    /\ Checked =>
          /\ (authz.userRole = "MANAGER" /\ authz.permission \in WritePermissions)
                => authz.result = Return(FALSE)
          /\ (authz.permission \in AdminOnlyPermissions /\ authz.result = Return(TRUE))
                => authz.userRole = "ADMIN"
          /\ authz.userRole = "MANAGER" =>
                /\ canApproveOrder(authz.userRole, authz.isUserActive) = Return(FALSE)
                /\ canGeneratePO(authz.userRole, authz.isUserActive) = Return(FALSE)
                /\ canManageRoles(authz.userRole, authz.isUserActive) = Return(FALSE)
          /\ canApproveOrder(authz.userRole, authz.isUserActive) = Return(TRUE)
                => authz.userRole = "ADMIN"
          /\ canGeneratePO(authz.userRole, authz.isUserActive) = Return(TRUE)
                => authz.userRole = "ADMIN"

\* An active MANAGER is refused the approval of an order
C24_Witness ==
    /\ Checked
    /\ authz.userRole = "MANAGER"
    /\ authz.isUserActive
    /\ authz.permission = "order:approve"
    /\ authz.result = Return(FALSE)

\* hasPermission on the k-th permission of the list checked, with the role,
\* the activity flag and the ids of the call
Granted(k) ==
    hasPermission(authz.userRole, authz.permissions[k], authz.isUserActive,
                  authz.userId, authz.resourceOwnerId) = Return(TRUE)

\* C26: hasAnyPermission(role, ps, ...) is true exactly when hasPermission(role,
\* p, ...) is true for at least one p of ps, and hasAllPermissions(role, ps,
\* ...) is true exactly when it is true for every p of ps, each check being
\* made with the role, the activity flag, the userId and the resourceOwnerId
\* of the call.
C26_AnyAndAll ==
    /\ authz.op = "hasAnyPermission" =>
          ( authz.result = Return(TRUE)
            <=> \E k \in 1..Len(authz.permissions) : Granted(k) )
    /\ authz.op = "hasAllPermissions" =>
          ( authz.result = Return(TRUE)
            <=> \A k \in 1..Len(authz.permissions) : Granted(k) )
    /\ (authz.op \in {"hasAnyPermission", "hasAllPermissions"} /\ authz.userRole \in UserRole)
          => ~authz.result.throws

\* A sales user asking for the approval or its own order is granted any of the
\* two on the second permission
C26_Witness ==
    /\ authz.op = "hasAnyPermission"
    /\ authz.userRole = "SALES"
    /\ authz.permissions = <<"order:approve", "order:read-own">>
    /\ authz.userId = "u1"
    /\ authz.resourceOwnerId = "u1"
    /\ authz.isUserActive
    /\ authz.result = Return(TRUE)

\* The same user is refused all of the two
C26_WitnessAll ==
    /\ authz.op = "hasAllPermissions"
    /\ authz.userRole = "SALES"
    /\ authz.permissions = <<"order:read-own", "order:approve">>
    /\ authz.userId = "u1"
    /\ authz.resourceOwnerId = "u1"
    /\ authz.isUserActive
    /\ authz.result = Return(FALSE)

(***************************************************************************)
(* Properties of the amounts (SpecAmounts)                                 *)
(***************************************************************************)

\* The digits of the integer part of a number and its decimal digits
IntegerDigits(val) ==
    IF Exponent(val) > 0 THEN DigitCount(val.int) + Exponent(val)
    ELSE IF Exponent(val) < 0 THEN 1
    ELSE DigitCount(val.int)

DecimalDigits(val) ==
    IF Exponent(val) > 0 THEN 0
    ELSE FractionLength(val) - Exponent(val)

\* The number a field was given, a string being read as parseFloat reads it
NumberGiven(v) == IF v.t = "string" THEN parseFloat(v.s) ELSE v

\* The number is negative, or has more integer digits than maxInteger, or has
\* more than two decimals
BeyondCeiling(val, maxInteger) ==
    \/ val.neg /\ (val.int > 0 \/ val.frac > 0)
    \/ IntegerDigits(val) > maxInteger
    \/ DecimalDigits(val) > 2

\* The field of the validated record is rejected when beyond its ceiling and
\* accepted as the number given otherwise
CeilingKept(field, maxInteger) ==
    LET val == NumberGiven(validation.row[field]) IN
    (val.t = "number") =>
        IF BeyondCeiling(val, maxInteger)
        THEN <<field>> \in validation.result.issues
        ELSE /\ <<field>> \notin validation.result.issues
             /\ validation.result.value[field] = val

\* C25: a monetary value beyond its digit ceiling is a validation failure: a
\* unitPrice or customPrice whose integer part has more than 6 digits, an
\* order subtotal or total whose integer part has more than 9 digits, any of
\* them with more than 2 decimals, and a negative one, are rejected; a value
\* within its ceiling is accepted as it is.
C25_DigitCeilings ==
    validation.op = "amountsValidated" =>
        IF validation.kind = "item"
        THEN CeilingKept("unitPrice", 6) /\ CeilingKept("customPrice", 6)
        ELSE CeilingKept("subtotal", 9) /\ CeilingKept("total", 9)

\* The same for the numbers toString writes in full
C25_DigitCeilingsWrittenInFull ==
    (/\ validation.op = "amountsValidated"
     /\ \A field \in IF validation.kind = "item" THEN {"unitPrice", "customPrice"}
                     ELSE {"subtotal", "total"} :
           LET val == NumberGiven(validation.row[field])
           IN val.t = "number" => Exponent(val) = 0)
        => C25_DigitCeilings

(***************************************************************************)
(* Properties of the unit price (SpecHelpers)                              *)
(***************************************************************************)

\* C27: the unit price resolved for the price type GROSIR, SEMI_GROSIR, RETAIL
\* or MODERN is the field of that tier in the product's price list
\* (grosirPrice, semiGrosirPrice, retailPrice, modernPrice), and the unit
\* price resolved for CUSTOM is the custom price of the item, not a price of
\* the list.
C27_UnitPriceResolution ==
    call.op = "resolveUnitPrice" =>
        /\ call.priceType = "GROSIR" => call.result = call.product.grosirPrice
        /\ call.priceType = "SEMI_GROSIR" => call.result = call.product.semiGrosirPrice
        /\ call.priceType = "RETAIL" => call.result = call.product.retailPrice
        /\ call.priceType = "MODERN" => call.result = call.product.modernPrice
        /\ call.priceType = "CUSTOM" => call.result = call.customPrice

\* A RETAIL item gets the retail price of a list whose prices all differ
C27_Witness ==
    /\ call.op = "resolveUnitPrice"
    /\ call.priceType = "RETAIL"
    /\ call.result = Num(180, 0)
    /\ call.product.modernPrice = Num(200, 0)

\* A CUSTOM item gets its custom price, which no tier of the list has
C27_WitnessCustom ==
    /\ call.op = "resolveUnitPrice"
    /\ call.priceType = "CUSTOM"
    /\ call.result = Num(175, 0)
    /\ \A tier \in PriceTypeEnum \ {"CUSTOM"} :
          getPriceByType(call.product, tier) # call.result

(***************************************************************************)
(* Properties of the user schemas (SpecUsers)                              *)
(***************************************************************************)

\* The update asks for an inactive user with a role other than BASIC
InactiveNonBasicRequested ==
    /\ validation.req.isActive = Bool(FALSE)
    /\ validation.req.role \in UserRole \ {"BASIC"}

FormSchemas == {"UpdateUserRoleFormSchema", "UserManagementFormSchema"}

\* C28: an inactive user has role BASIC: UpdateUserRoleFormSchema and
\* UserManagementFormSchema reject a record with isActive = false and a role
\* other than BASIC, with an issue on path role, and every schema of a user
\* update does the same, so that no accepted update makes an inactive ADMIN,
\* MANAGER or SALES.
C28_InactiveIsBasic ==
    validation.op = "userValidated" =>
        /\ InactiveNonBasicRequested => ~Success(validation.result)
        /\ (InactiveNonBasicRequested /\ validation.schema \in FormSchemas)
              => <<"role">> \in validation.result.issues
        /\ Success(validation.result) => InactiveIsBasic(validation.result.value)

\* What the two form schemas do guarantee
C28_FormsInactiveIsBasic ==
    (validation.op = "userValidated" /\ validation.schema \in FormSchemas)
        => C28_InactiveIsBasic

(***************************************************************************)
(* Properties of the paths of an order (Spec)                              *)
(***************************************************************************)

\* C29: an order reaches TERKIRIM only from DISETUJUI: in every sequence of
\* accepted transitions from DRAFT, the status before an accepted transition
\* to TERKIRIM is DISETUJUI.
C29_DeliveredFromApproved ==
    [][(statusHistory' # statusHistory /\ status' = "TERKIRIM")
          => status = "DISETUJUI"]_vars

\* What the schema does guarantee: the request of an accepted transition to
\* TERKIRIM quotes DISETUJUI as the current status
C29_DeliveredQuotingApproved ==
    (Processed /\ last.accepted /\ last.data.newStatus = "TERKIRIM")
        => last.data.currentStatus = "DISETUJUI"

\* No status leads to DRAFT and none to itself
C30_TableNeverReopens ==
    \A s \in OrderStatus :
        /\ ~validateStatusTransition(s, "DRAFT")
        /\ ~validateStatusTransition(s, s)

\* C30: DRAFT is never entered again and no status leads to itself:
\* validateStatusTransition(s, DRAFT) and validateStatusTransition(s, s) are
\* false for every status s, so an order that has left DRAFT is never in DRAFT
\* again, whatever transitions are accepted: the order is in DRAFT only while
\* no transition has been accepted, no entry of its history is DRAFT, and a
\* request for DRAFT is rejected.
C30_DraftNeverReentered ==
    /\ C30_TableNeverReopens
    /\ statusHistory # <<>> => status # "DRAFT"
    /\ \A k \in 1..Len(statusHistory) : statusHistory[k].status # "DRAFT"
    /\ (Processed /\ last.data.newStatus = "DRAFT") => ~last.accepted

\* An order that has left DRAFT is asked back to DRAFT by a request otherwise
\* complete, and the request is rejected
C30_Witness ==
    /\ Processed
    /\ last.data.newStatus = "DRAFT"
    /\ last.data.id = OrderId
    /\ last.statusBefore = "TIDAK_TERKIRIM"
    /\ ~last.accepted
    /\ status = "TIDAK_TERKIRIM"

====
